---------------------------- MODULE Spec2Model ----------------------------
(***************************************************************************)
(* Face-search bot: gift-card redemption (src/src/gift_card_payment.py),  *)
(* the credit ledger (src/database.py, not part of the sources at hand,   *)
(* modelled from its contract in spec.md section 4.2) and the search      *)
(* session orchestrator (src/src/bot.py).                                 *)
(*                                                                         *)
(* Coroutines are cut at their awaits on shared state: one action is the  *)
(* code an asyncio task runs between two suspension points, with the      *)
(* database operation it awaits taken as one atomic step of the backend.  *)
(***************************************************************************)
EXTENDS Integers, Sequences, FiniteSets, Bags, TLC

(***************************************************************************)
(* Bounds of the model.                                                    *)
(***************************************************************************)
NUsers == 2
MaxCalls == 2
MaxCredits == 2
MaxHandlers == 2
MaxPhotos == 2
MaxPayments == 2
MaxDay == 1
MaxPolls == 2

Users == 1..NUsers
Calls == 1..MaxCalls
Handlers == 1..MaxHandlers
\* Python's None and a present value: a sequence of no or one element.
None == <<>>
Some(x) == <<x>>

(***************************************************************************)
(* Strings are sequences of one-character strings, so that upper() and    *)
(* replace("-", "") are computed character by character.                  *)
(***************************************************************************)
LowerAlphabet == <<"a", "b", "c", "d", "e", "f", "q", "z">>
UpperAlphabet == <<"A", "B", "C", "D", "E", "F", "Q", "Z">>

upper_char(ch) ==
    IF \E i \in 1..Len(LowerAlphabet) : LowerAlphabet[i] = ch
    THEN UpperAlphabet[CHOOSE i \in 1..Len(LowerAlphabet) : LowerAlphabet[i] = ch]
    ELSE ch

lower_char(ch) ==
    IF \E i \in 1..Len(UpperAlphabet) : UpperAlphabet[i] = ch
    THEN LowerAlphabet[CHOOSE i \in 1..Len(UpperAlphabet) : UpperAlphabet[i] = ch]
    ELSE ch

upper(s) == [i \in 1..Len(s) |-> upper_char(s[i])]
lower(s) == [i \in 1..Len(s) |-> lower_char(s[i])]
IsNotDash(ch) == ch # "-"
remove_dashes(s) == SelectSeq(s, IsNotDash)

\* self.code_length, and the literal 12 of validate_code and format_code.
code_length == 12

\* validate_code, line 70: code.upper().replace("-", "")
normalize_NoUpper(code) == remove_dashes(code)
normalize_code(code) == remove_dashes(upper(code))

\* format_code: XXXX-XXXX-XXXX when the normalized code has 12 characters.
format_code(code) ==
    LET c == normalize_code(code)
    IN  IF Len(c) = code_length
        THEN SubSeq(c, 1, 4) \o <<"-">> \o SubSeq(c, 5, 8) \o <<"-">> \o SubSeq(c, 9, Len(c))
        ELSE c

(***************************************************************************)
(* The gift_cards table as the generation tool leaves it: codes of 12     *)
(* characters of [A-Z0-9], each unredeemed, with its searches_amount.     *)
(***************************************************************************)
Code1 == <<"A", "B", "1", "2", "C", "D", "3", "4", "E", "F", "5", "6">>
Code2 == <<"Z", "Z", "9", "9", "Z", "Z", "9", "9", "Z", "Z", "9", "9">>
CodeUnknown == <<"Q", "Q", "0", "0", "Q", "Q", "0", "0", "Q", "Q", "0", "0">>
KnownCodes == {Code1, Code2}
CardAmount(code) == IF code = Code1 THEN 5 ELSE 1

\* What a user may type: every spelling of a card's code, a well-formed code
\* of no card, and codes that are too short or too long.
Spellings(c) == {c, lower(c), format_code(c), lower(format_code(c))}
SpellingsOf == [c \in KnownCodes |-> Spellings(c)]
\* The cards a typed input is a spelling of (none, or one).
CardsSpelled(input) == {c \in KnownCodes : input \in SpellingsOf[c]}
CodeInputs ==
    Spellings(Code1) \cup {Code2} \cup {CodeUnknown}
    \cup {SubSeq(Code1, 1, 11), format_code(Code1) \o <<"7">>}

VARIABLES
    now,                    \* time.time() / datetime.utcnow(), in seconds
    today,                  \* the backend's calendar date, in days
    registered,             \* the ids that have a row in table users
    free_searches,          \* users.free_searches
    paid_searches,          \* users.paid_searches
    last_free_grant_date,   \* users.last_free_grant_date
    grants,                 \* per user, the days of the daily grants made
    use_log,                \* per user, the use_search calls made
    payments,               \* table payments, in insertion order
    confirmations,          \* the payment confirmations Telegram has delivered
    pending_results,        \* dict pending_results: search_id -> result
    pending_photos,         \* dict pending_photos: user_id -> image
    last_search_by_user,    \* dict last_search_by_user: user_id -> search_id
    pending_reminders,      \* the keys of dict pending_reminders
    reminder_tasks,         \* the schedule_expiry_reminder tasks, by search_id
    handlers,               \* the running handle_photo / paid-search coroutines
    sent,                   \* what the bot has sent to the users, a bag
    photos_sent,            \* the number of photos the users have sent
    next_search_id,         \* the id_search the provider assigns next
    gift_cards,             \* table gift_cards, keyed by code
    gift_card_redemptions,  \* table gift_card_redemptions, in insertion order
    redeem_calls,           \* the redeem_code coroutines, by call slot
    fsm_state,              \* per user, the state of the gift-code dialogue
    answered,               \* the call slots whose process_gift_code has ended
    client                  \* a FaceCheckClient.find_face call and its provider

giftVars == <<gift_cards, gift_card_redemptions, redeem_calls, fsm_state,
              answered>>
balanceVars == <<free_searches, paid_searches>>
ledgerVars == <<today, registered, free_searches, paid_searches,
                last_free_grant_date, grants, use_log>>
botVars == <<payments, confirmations, pending_results, pending_photos,
             last_search_by_user, pending_reminders, reminder_tasks, handlers,
             sent, photos_sent, next_search_id>>
vars == <<now, ledgerVars, giftVars, botVars, client>>

(***************************************************************************)
(* The search gateway, src/src/facecheck_client.py: one find_face call,    *)
(* cut at its awaits, and the provider that answers its requests.          *)
(***************************************************************************)
\* Python truth of an optional string, and of an optional integer.
truthy_str(opt) == opt # None /\ opt[1] # ""
truthy_int(opt) == opt # None /\ opt[1] # 0

\* What POST /upload_pic may come to: the request raises, or a response
\* with its HTTP status and the id_search of its body (absent, "", or an id).
UploadResponses ==
    {[kind |-> "raise", http |-> 0, id_search |-> None]}
    \cup {[kind |-> "http", http |-> h, id_search |-> i] :
             h \in {200, 500}, i \in {None, Some(""), Some("S1"), Some("S2")}}

\* What POST /search may come to: the request raises, a response of
\* another status than 200, or a 200 with its error and progress fields.
StatusResponses ==
    {[kind |-> "raise", http |-> 0, error |-> None, progress |-> None],
     [kind |-> "http", http |-> 500, error |-> None, progress |-> None]}
    \cup {[kind |-> "http", http |-> 200, error |-> e, progress |-> pr] :
             e \in {None, Some("E")},
             pr \in {None, Some(0), Some(50), Some(100), Some(101)}}

\* upload_image, lines 24-27: data.get("id_search") of a 200, else None.
upload_image(r) == IF r.http = 200 THEN r.id_search ELSE None

\* search, line 59: `progress and progress >= 100`.
complete_Above(progress) == truthy_int(progress) /\ progress[1] > 100
complete(progress) == truthy_int(progress) /\ progress[1] >= 100

\* What find_face returns or raises.
Returned(kind, error, data) == [kind |-> kind, error |-> error, data |-> data]
ReturnsNone == Returned("none", "", None)
ReturnsError(msg) == Returned("error", msg, None)
ReturnsData(r) == Returned("data", "", Some(r))
Raises(what) == Returned("raised", what, None)

\* search, lines 50-62, on one response: what it returns, or <<>> when it
\* goes on to sleep.
on_status_NoHttpCheck(r) ==
    IF truthy_str(r.error) THEN Some(ReturnsError(r.error[1]))
    ELSE IF complete(r.progress) THEN Some(ReturnsData(r))
    ELSE None
on_status(r) ==
    IF r.http # 200 THEN Some(ReturnsNone)
    ELSE IF truthy_str(r.error) THEN Some(ReturnsError(r.error[1]))
    ELSE IF complete(r.progress) THEN Some(ReturnsData(r))
    ELSE None

\* find_face, lines 67-68: `if not id_search`.
has_id_Any(id_search) == id_search # None
has_id(id_search) == truthy_str(id_search)

\* requests counts the status requests, up to one more than MaxPolls.
\* busy_left is the provider's mind: the number of answers "still working"
\* it gives before another one, -1 for ever.  upload, last and
\* last_progress remember the responses received.
IdleClient ==
    [pc |-> "idle", on_progress |-> FALSE, id_search |-> None,
     result |-> None, requests |-> 0, request_ids |-> {}, busy_left |-> 0,
     upload |-> None, last |-> None, last_progress |-> None,
     callback_calls |-> 0]

\* The provider is still working: a 200 with no error and progress under 100.
StillWorking(r) ==
    /\ r.kind = "http" /\ r.http = 200 /\ r.error = None
    /\ IF r.progress = None THEN TRUE ELSE r.progress[1] < 100

\* find_face(image_bytes, demo) is called, lines 64-66; the def takes no
\* on_progress, so a call that passes one raises TypeError.
FindFace(with_callback) ==
    /\ client.pc = "idle"
    /\ client' = IF with_callback
                 THEN [client EXCEPT !.pc = "done", !.on_progress = TRUE,
                                     !.result = Some(Raises("TypeError"))]
                 ELSE [client EXCEPT !.pc = "uploading"]
    /\ UNCHANGED <<now, ledgerVars, giftVars, botVars>>

\* upload_image answers, lines 18-27, and find_face goes on, lines 66-70.
UploadResponds(r) ==
    /\ client.pc = "uploading"
    /\ client' =
          IF r.kind = "raise"
          THEN [client EXCEPT !.pc = "done", !.upload = Some(r),
                              !.result = Some(Raises("upload"))]
          ELSE IF has_id(upload_image(r))
          THEN [client EXCEPT !.pc = "request", !.upload = Some(r),
                              !.id_search = upload_image(r)]
          ELSE [client EXCEPT !.pc = "done", !.upload = Some(r),
                              !.id_search = upload_image(r),
                              !.result =
                                  Some(ReturnsError("Failed to upload image"))]
    /\ UNCHANGED <<now, ledgerVars, giftVars, botVars>>

\* search, lines 45-49: the status request is posted.
SearchRequest ==
    /\ client.pc = "request"
    /\ client' = [client EXCEPT
                     !.pc = "awaiting",
                     !.requests = IF @ <= MaxPolls THEN @ + 1 ELSE @,
                     !.request_ids = @ \cup {client.id_search[1]}]
    /\ UNCHANGED <<now, ledgerVars, giftVars, botVars>>

\* search, lines 50-62: the answer to the status request.
SearchResponds(r) ==
    /\ client.pc = "awaiting"
    /\ IF client.busy_left = 0 THEN ~StillWorking(r) ELSE StillWorking(r)
    /\ client' =
          [client EXCEPT
              !.busy_left = IF @ > 0 THEN @ - 1 ELSE @,
              !.last = Some(r),
              !.last_progress = IF r.kind = "raise" THEN @ ELSE r.progress,
              !.pc = IF r.kind = "raise" THEN "done"
                     ELSE IF on_status(r) # None THEN "done" ELSE "sleeping",
              !.result = IF r.kind = "raise" THEN Some(Raises("search"))
                         ELSE on_status(r)]
    /\ UNCHANGED <<now, ledgerVars, giftVars, botVars>>

\* search, line 62: asyncio.sleep(2) is over and the loop goes round.
SleepOver ==
    /\ client.pc = "sleeping"
    /\ client' = [client EXCEPT !.pc = "request"]
    /\ UNCHANGED <<now, ledgerVars, giftVars, botVars>>

IdleCall ==
    [pc |-> "idle", telegram_id |-> 0, code |-> <<>>, card |-> None,
     result |-> "none", select_ok |-> TRUE, credit_ok |-> TRUE,
     was_unredeemed |-> FALSE, prior_success |-> FALSE,
     paid_before |-> 0, free_before |-> 0, log_before |-> 0, lookups |-> 0]

InitGift ==
    /\ gift_cards = [c \in KnownCodes |->
                        [code |-> c, searches_amount |-> CardAmount(c),
                         is_redeemed |-> FALSE, redeemed_by |-> None,
                         redeemed_at |-> None]]
    /\ gift_card_redemptions = <<>>
    /\ redeem_calls = [p \in Calls |-> IdleCall]
    /\ fsm_state = [u \in Users |-> "none"]
    /\ answered = {}

(***************************************************************************)
(* validate_code: the normalized code must have 12 characters; then the   *)
(* card is selected by code.  None when the format is wrong, when no card *)
(* has the code, and when the select raises.                              *)
(***************************************************************************)
validate_code(code, select_ok) ==
    LET code_normalized == normalize_code(code)
    IN  IF Len(code_normalized) # code_length THEN None
        ELSE IF ~select_ok THEN None
        ELSE IF code_normalized \in DOMAIN gift_cards
             THEN Some(gift_cards[code_normalized])
        ELSE None

\* validate_code, lines 72-80: the select is made when the length is right.
validate_code_selects(code) == Len(normalize_code(code)) = code_length

\* redeem_code, line 99: `if card.get("is_redeemed")`.
already_redeemed_Never(card) == FALSE
already_redeemed(card) == card.is_redeemed

\* Calls of redeem_code that have returned success on the card `code`.
SucceededOn(code) ==
    {q \in Calls : /\ redeem_calls[q].pc = "done"
                   /\ redeem_calls[q].result = "success"
                   /\ code \in CardsSpelled(redeem_calls[q].code)}

(***************************************************************************)
(* redeem_code, lines 94-101: validate_code and the two early returns.    *)
(* The card read here is the snapshot the rest of the call works on.      *)
(* Call slots are taken in order: a slot only names a call.               *)
(***************************************************************************)
RedeemValidate(p, telegram_id, code, select_ok) ==
    LET card == validate_code(code, select_ok)
        call == [IdleCall EXCEPT
                    !.telegram_id = telegram_id,
                    !.code = code,
                    !.card = card,
                    !.select_ok = select_ok,
                    !.lookups = IF validate_code_selects(code) THEN 1 ELSE 0,
                    !.was_unredeemed =
                        \E c \in CardsSpelled(code) : ~gift_cards[c].is_redeemed,
                    !.prior_success =
                        \E c \in CardsSpelled(code) : SucceededOn(c) # {},
                    !.paid_before = paid_searches[telegram_id],
                    !.free_before = free_searches[telegram_id],
                    !.log_before = Len(gift_card_redemptions)]
    IN  /\ redeem_calls[p].pc = "idle"
        /\ \A q \in Calls : q < p => redeem_calls[q].pc # "idle"
        /\ redeem_calls' = [redeem_calls EXCEPT ![p] =
              IF card = None
              THEN [call EXCEPT !.pc = "done", !.result = "not_found"]
              ELSE IF already_redeemed(card[1])
              THEN [call EXCEPT !.pc = "done", !.result = "already_redeemed"]
              ELSE [call EXCEPT !.pc = "validated"]]
        /\ UNCHANGED <<now, client, ledgerVars, botVars, gift_cards,
                       gift_card_redemptions, fsm_state, answered>>

(***************************************************************************)
(* redeem_code, lines 103-107: db.add_paid_searches(telegram_id, amount); *)
(* a falsy answer ends the call with "Error adding searches".             *)
(***************************************************************************)
\* db.add_paid_searches(telegram_id, n), of src/database.py: the paid balance
\* after the call; a write that fails (ok false) leaves it and answers false.
add_paid_searches_Anyway(paid, n, ok) == paid + n
add_paid_searches(paid, n, ok) == IF ok THEN paid + n ELSE paid

RedeemCredit(p, ok) ==
    LET call == redeem_calls[p]
        searches_amount == call.card[1].searches_amount
    IN  /\ call.pc = "validated"
        /\ paid_searches' = [paid_searches EXCEPT ![call.telegram_id] =
                                add_paid_searches(@, searches_amount, ok)]
        /\ IF ok
           THEN redeem_calls' = [redeem_calls EXCEPT ![p].pc = "credited"]
           ELSE redeem_calls' = [redeem_calls EXCEPT
                                       ![p].pc = "done",
                                       ![p].result = "error_adding",
                                       ![p].credit_ok = FALSE]
        /\ UNCHANGED <<now, client, today, registered, free_searches, last_free_grant_date,
                       grants, use_log, botVars, gift_cards,
                       gift_card_redemptions, fsm_state, answered>>

(***************************************************************************)
(* redeem_code, lines 109-118: the update of the card, by the code of the *)
(* snapshot.                                                               *)
(***************************************************************************)
MarkRedeemed_KeepFlag(card, telegram_id) ==
    [card EXCEPT !.redeemed_by = Some(telegram_id), !.redeemed_at = Some(now)]
MarkRedeemed(card, telegram_id) ==
    [card EXCEPT !.is_redeemed = TRUE, !.redeemed_by = Some(telegram_id),
                 !.redeemed_at = Some(now)]

RedeemMark(p) ==
    LET call == redeem_calls[p]
    IN  /\ call.pc = "credited"
        /\ gift_cards' = [gift_cards EXCEPT ![call.card[1].code] =
                             MarkRedeemed(@, call.telegram_id)]
        /\ redeem_calls' = [redeem_calls EXCEPT ![p].pc = "marked"]
        /\ UNCHANGED <<now, client, ledgerVars, botVars, gift_card_redemptions,
                       fsm_state, answered>>

(***************************************************************************)
(* redeem_code, lines 120-131: the redemption record, and success.        *)
(***************************************************************************)
RedeemLog(p) ==
    LET call == redeem_calls[p]
    IN  /\ call.pc = "marked"
        /\ gift_card_redemptions' = Append(gift_card_redemptions,
              [telegram_id |-> call.telegram_id,
               searches_amount |-> call.card[1].searches_amount,
               code |-> call.card[1].code,
               redeemed_at |-> now])
        /\ redeem_calls' = [redeem_calls EXCEPT ![p].pc = "done",
                                                ![p].result = "success"]
        /\ UNCHANGED <<now, client, ledgerVars, botVars, gift_cards, fsm_state,
                       answered>>

InFlight(p) == redeem_calls[p].pc \notin {"idle", "done"}

(***************************************************************************)
(* redeem_code, lines 103-127: the call is cut short between two of its   *)
(* writes.  client.update (line 110) and client.insert (line 127) are not *)
(* inside a try, so an exception of theirs, like a stop of the process at *)
(* one of the awaits, ends the call where it stands; what was written     *)
(* stays written.                                                          *)
(***************************************************************************)
CrashedAt(pc) ==
    CASE pc = "validated" -> "crashed_before_credit"
      [] pc = "credited" -> "crashed_before_mark"
      [] pc = "marked" -> "crashed_before_record"

RedeemCrash(p) ==
    /\ redeem_calls[p].pc \in {"validated", "credited", "marked"}
    /\ redeem_calls' = [redeem_calls EXCEPT
                            ![p].pc = "done",
                            ![p].result = CrashedAt(redeem_calls[p].pc)]
    /\ UNCHANGED <<now, client, ledgerVars, botVars, gift_cards,
                   gift_card_redemptions, fsm_state, answered>>

(***************************************************************************)
(* The credit ledger, src/database.py.  The file is not among the sources; *)
(* its operations are modelled from their contracts in spec.md 4.2, each  *)
(* one atomic operation of the backend.                                    *)
(***************************************************************************)
\* The balance a first contact starts with.
STARTING_FREE_SEARCHES == 1

\* use_search: the free balance is spent first, then the paid one; with both
\* at zero the call fails with NoCreditsError and changes nothing.
use_search_Unchecked(free, paid) ==
    IF free > 0 \/ paid = 0
    THEN [success |-> TRUE, was_free |-> TRUE, error |-> "",
          free |-> free - 1, paid |-> paid]
    ELSE [success |-> TRUE, was_free |-> FALSE, error |-> "",
          free |-> free, paid |-> paid - 1]
use_search_PaidFirst(free, paid) ==
    IF paid > 0
    THEN [success |-> TRUE, was_free |-> FALSE, error |-> "",
          free |-> free, paid |-> paid - 1]
    ELSE IF free > 0
    THEN [success |-> TRUE, was_free |-> TRUE, error |-> "",
          free |-> free - 1, paid |-> paid]
    ELSE [success |-> FALSE, was_free |-> FALSE, error |-> "NoCreditsError",
          free |-> free, paid |-> paid]
use_search(free, paid) ==
    IF free > 0
    THEN [success |-> TRUE, was_free |-> TRUE, error |-> "",
          free |-> free - 1, paid |-> paid]
    ELSE IF paid > 0
    THEN [success |-> TRUE, was_free |-> FALSE, error |-> "",
          free |-> free, paid |-> paid - 1]
    ELSE [success |-> FALSE, was_free |-> FALSE, error |-> "NoCreditsError",
          free |-> free, paid |-> paid]

\* check_and_grant_daily_free_search: whether the user's last grant is of
\* another day than today; the grant itself is check and set in one step.
grant_due_Always(u) == TRUE
grant_due(u) == last_free_grant_date[u] # Some(today)

\* get_or_create_user: the row created on first contact.
IsNew(u) == u \notin registered

\* record_payment: one record appended to table payments.
record_payment(log, user_id, stars, searches, payment_id) ==
    Append(log, [telegram_id |-> user_id, stars |-> stars,
                 searches |-> searches, payment_id |-> payment_id])

(***************************************************************************)
(* SpecLedger: use_search applied to balances drawn from 0..MaxCredits.    *)
(***************************************************************************)
MaxUseCalls == MaxCredits + 1

LedgerUseSearch(u) ==
    LET r == use_search(free_searches[u], paid_searches[u])
    IN  /\ Len(use_log[u]) < MaxUseCalls
        /\ free_searches' = [free_searches EXCEPT ![u] = r.free]
        /\ paid_searches' = [paid_searches EXCEPT ![u] = r.paid]
        /\ use_log' = [use_log EXCEPT ![u] = Append(@,
              [free_before |-> free_searches[u], paid_before |-> paid_searches[u],
               free_after |-> r.free, paid_after |-> r.paid,
               success |-> r.success, was_free |-> r.was_free,
               error |-> r.error])]
        /\ UNCHANGED <<now, client, today, registered, last_free_grant_date, grants,
                       giftVars, botVars>>

IdleHandler ==
    [pc |-> "idle", kind |-> "", user |-> 0, photo |-> 0, free_seen |-> 0,
     paid_seen |-> 0, items |-> 0, search_id |-> 0]

InitBotEmpty ==
    /\ payments = <<>>
    /\ confirmations = {}
    /\ pending_results = <<>>
    /\ pending_photos = <<>>
    /\ last_search_by_user = <<>>
    /\ pending_reminders = {}
    /\ reminder_tasks = <<>>
    /\ handlers = [h \in Handlers |-> IdleHandler]
    /\ sent = EmptyBag
    /\ photos_sent = 0
    /\ next_search_id = 1

InitLedger ==
    /\ now = 0
    /\ today = 0
    /\ registered = Users
    /\ free_searches \in [Users -> 0..MaxCredits]
    /\ paid_searches \in [Users -> 0..MaxCredits]
    /\ last_free_grant_date = [u \in Users |-> None]
    /\ grants = [u \in Users |-> <<>>]
    /\ use_log = [u \in Users |-> <<>>]
    /\ InitGift
    /\ InitBotEmpty
    /\ client = IdleClient

NextLedger == \E u \in Users : LedgerUseSearch(u)

SpecLedger == InitLedger /\ [][NextLedger]_vars

InitLedgerZero ==
    /\ today = 0
    /\ registered = Users
    /\ free_searches = [u \in Users |-> 0]
    /\ paid_searches = [u \in Users |-> 0]
    /\ last_free_grant_date = [u \in Users |-> None]
    /\ grants = [u \in Users |-> <<>>]
    /\ use_log = [u \in Users |-> <<>>]

(***************************************************************************)
(* The orchestrator, src/src/bot.py.                                       *)
(***************************************************************************)
RESULTS_EXPIRATION_SECONDS == 30 * 60
REMINDER_DELAY_SECONDS == 25 * 60
FREE_RESULTS_COUNT == 3
\* faces[:10] of the paid delivery and of unlock-all.
PAID_RESULTS_COUNT == 10

Min(a, b) == IF a < b THEN a ELSE b

\* The instants the clock is read at: around a store, around the reminder
\* and around the expiry of a session stored at 0 or at 1, and the first
\* instant from which a reminder scheduled for a session stored at 0 is due
\* after that session's expiry.
TimePoints ==
    {0, 1, RESULTS_EXPIRATION_SECONDS - REMINDER_DELAY_SECONDS + 1,
     REMINDER_DELAY_SECONDS, REMINDER_DELAY_SECONDS + 1,
     RESULTS_EXPIRATION_SECONDS, RESULTS_EXPIRATION_SECONDS + 1,
     RESULTS_EXPIRATION_SECONDS + 2}

\* The numbers of items a completed search may carry: none, one, the free
\* count, one more, and one more than a paid delivery shows.
ItemCounts ==
    {0, 1, FREE_RESULTS_COUNT, FREE_RESULTS_COUNT + 1, PAID_RESULTS_COUNT + 1}

GatewayOutcomes ==
    {[status |-> st, items |-> 0] : st \in {"none", "error"}}
    \cup {[status |-> "ok", items |-> n] : n \in ItemCounts}

SearchIds == 1..MaxPhotos
\* The result indexes an unlock button may carry, from 0.
UnlockIndexes == {0, FREE_RESULTS_COUNT - 1}

\* is_result_expired, on the cache `results` read at time `t`.
expired_AtTTL(results, t, search_id) ==
    IF search_id \notin DOMAIN results THEN TRUE
    ELSE (t - results[search_id]._created_at) >= RESULTS_EXPIRATION_SECONDS
expired_Never(results, t, search_id) ==
    search_id \notin DOMAIN results
expired(results, t, search_id) ==
    IF search_id \notin DOMAIN results THEN TRUE
    ELSE (t - results[search_id]._created_at) > RESULTS_EXPIRATION_SECONDS
is_result_expired(search_id) == expired(pending_results, now, search_id)

Msg(kind, to, search_id, idx) ==
    [kind |-> kind, to |-> to, search_id |-> search_id, idx |-> idx]
Send(msgs) == sent' = sent (+) SetToBag(msgs)

\* dict assignment d[k] = v, and dict.pop(k)
Put(d, k, v) == [x \in DOMAIN d \cup {k} |-> IF x = k THEN v ELSE d[x]]
Pop_Keep(d, k) == d
Pop(d, k) == [x \in DOMAIN d \ {k} |-> d[x]]

(***************************************************************************)
(* get_or_create_user followed by check_and_grant_daily_free_search, as   *)
(* cmd_start and handle_photo call them.  `granted` is the grant's answer. *)
(***************************************************************************)
ContactAndGrant(u, granted) ==
    LET free0 == IF IsNew(u) THEN STARTING_FREE_SEARCHES ELSE free_searches[u]
    IN  /\ granted = grant_due(u)
        /\ registered' = registered \cup {u}
        /\ free_searches' = [free_searches EXCEPT
                                ![u] = IF granted THEN free0 + 1 ELSE free0]
        /\ last_free_grant_date' = [last_free_grant_date EXCEPT
                                ![u] = IF granted THEN Some(today) ELSE @]
        /\ grants' = [grants EXCEPT
                                ![u] = IF granted THEN Append(@, today) ELSE @]

\* cmd_start: the welcome, with the bonus line when the grant was made.
\* Of the two, `sent` keeps the welcome that announces the bonus.
CmdStart(u) ==
    \E granted \in BOOLEAN :
        /\ ContactAndGrant(u, granted)
        /\ Send(IF granted THEN {Msg("welcome_bonus", u, 0, today)} ELSE {})
        /\ UNCHANGED <<now, client, today, paid_searches, use_log, giftVars, payments,
                       confirmations, pending_results, pending_photos,
                       last_search_by_user, pending_reminders, reminder_tasks,
                       handlers, photos_sent, next_search_id>>

\* The slot a new coroutine takes: the first idle one (a slot only names it).
FreeSlot(h) ==
    /\ handlers[h].pc = "idle"
    /\ \A g \in Handlers : g < h => handlers[g].pc # "idle"

\* handle_photo, lines 732-741.
HandlePhotoBegin(h, u) ==
    \E granted \in BOOLEAN :
        /\ FreeSlot(h)
        /\ photos_sent < MaxPhotos
        /\ ContactAndGrant(u, granted)
        /\ photos_sent' = photos_sent + 1
        /\ handlers' = [handlers EXCEPT ![h] =
              [IdleHandler EXCEPT !.pc = "begun", !.user = u,
                                  !.photo = photos_sent + 1]]
        /\ UNCHANGED <<now, client, today, paid_searches, use_log, giftVars, payments,
                       confirmations, pending_results, pending_photos,
                       last_search_by_user, pending_reminders, reminder_tasks,
                       sent, next_search_id>>

\* handle_photo, lines 743-744: get_user_credits, the balances as read;
\* the branch at line 752 tests the free one.
HandlePhotoCredits(h) ==
    /\ handlers[h].pc = "begun"
    /\ handlers' = [handlers EXCEPT
                       ![h].pc = "credits_read",
                       ![h].free_seen = free_searches[handlers[h].user],
                       ![h].paid_seen = paid_searches[handlers[h].user]]
    /\ UNCHANGED <<now, client, ledgerVars, giftVars, payments, confirmations,
                   pending_results, pending_photos, last_search_by_user,
                   pending_reminders, reminder_tasks, sent, photos_sent,
                   next_search_id>>

\* handle_photo, line 752.
has_free_search_OrNone(free_seen) == free_seen >= 0
has_free_search(free_seen) == free_seen > 0

\* handle_photo, lines 752-765: the free search starts (execute_free_search
\* up to its call of find_face), or the photo is kept and the invoice sent.
\* handle_photo, line 757: pending_photos[message.from_user.id] = image_bytes.
keep_photo_First(photos, user, photo) ==
    IF user \in DOMAIN photos THEN photos ELSE Put(photos, user, photo)
keep_photo(photos, user, photo) == Put(photos, user, photo)

HandlePhotoDecide(h) ==
    LET hd == handlers[h]
    IN  /\ hd.pc = "credits_read"
        /\ IF has_free_search(hd.free_seen)
           THEN /\ handlers' = [handlers EXCEPT ![h].pc = "searching",
                                                ![h].kind = "free"]
                /\ Send({Msg("searching", hd.user, 0, 0)})
                /\ UNCHANGED pending_photos
           ELSE /\ pending_photos' = keep_photo(pending_photos, hd.user, hd.photo)
                /\ Send({Msg("invoice_paid_search", hd.user, 0, 0)})
                /\ handlers' = [handlers EXCEPT ![h] = IdleHandler]
        /\ UNCHANGED <<now, client, ledgerVars, giftVars, payments, confirmations,
                       pending_results, last_search_by_user, pending_reminders,
                       reminder_tasks, photos_sent, next_search_id>>

\* execute_paid_search, line 691, and execute_free_search, line 819:
\* last_search_by_user[message.from_user.id] = search_id.
last_search_First(last, user, search_id) ==
    IF user \in DOMAIN last THEN last ELSE Put(last, user, search_id)
last_search(last, user, search_id) == Put(last, user, search_id)

\* The result dict as stored: the number of its items and _created_at;
\* _unlocked is absent, which result.get("_unlocked", False) reads as False.
\* `user` is not a key of the dict: it records whose search it was.
Stored(items, user) ==
    [items |-> items, _created_at |-> now, _unlocked |-> FALSE, user |-> user]

\* execute_free_search, lines 786-792, and execute_paid_search, lines
\* 661-667: `if not result` and `if result.get("error")`.
search_failed_OnlyNone(outcome) == outcome.status = "none"
search_failed(outcome) == outcome.status \in {"none", "error"}

\* execute_paid_search, line 683, and execute_free_search, line 811:
\* `if not faces`.
no_faces_Never(items) == FALSE
no_faces(items) == items = 0

(***************************************************************************)
(* find_face returns.  outcome: a falsy result ("none"), an error, or a    *)
(* completed search with its items.  execute_free_search, lines           *)
(* 784-795, goes on to db.use_search; execute_paid_search, lines 659-691, *)
(* stores the result at once.                                              *)
(***************************************************************************)
GatewayReturn(h, outcome) ==
    LET hd == handlers[h]
        search_id == next_search_id
    IN  /\ hd.pc = "searching"
        /\ IF search_failed(outcome)
           THEN /\ handlers' = [handlers EXCEPT ![h] = IdleHandler]
                /\ Send({Msg(IF outcome.status = "none" THEN "search_failed"
                              ELSE "search_error", hd.user, 0, 0)})
                /\ UNCHANGED <<pending_results, last_search_by_user,
                               next_search_id>>
           ELSE IF hd.kind = "free"
           THEN /\ handlers' = [handlers EXCEPT ![h].pc = "got_result",
                                                ![h].items = outcome.items,
                                                ![h].search_id = search_id]
                /\ next_search_id' = next_search_id + 1
                /\ UNCHANGED <<pending_results, last_search_by_user, sent>>
           ELSE IF no_faces(outcome.items)
           THEN /\ handlers' = [handlers EXCEPT ![h] = IdleHandler]
                /\ next_search_id' = next_search_id + 1
                /\ Send({Msg("no_matches", hd.user, 0, 0)})
                /\ UNCHANGED <<pending_results, last_search_by_user>>
           ELSE /\ pending_results' =
                      Put(pending_results, search_id, Stored(outcome.items, hd.user))
                /\ last_search_by_user' =
                      last_search(last_search_by_user, hd.user, search_id)
                /\ handlers' = [handlers EXCEPT ![h].pc = "delivering",
                                                ![h].items = outcome.items,
                                                ![h].search_id = search_id]
                /\ next_search_id' = next_search_id + 1
                /\ UNCHANGED sent
        /\ UNCHANGED <<now, client, ledgerVars, giftVars, payments, confirmations,
                       pending_photos, pending_reminders, reminder_tasks,
                       photos_sent>>

(***************************************************************************)
(* execute_free_search, lines 794-819: db.use_search, whose answer is     *)
(* dropped, then the store of a result that has items.                    *)
(***************************************************************************)
UseSearch(h) ==
    LET hd == handlers[h]
        u == hd.user
        r == use_search(free_searches[u], paid_searches[u])
    IN  /\ hd.pc = "got_result"
        /\ free_searches' = [free_searches EXCEPT ![u] = r.free]
        /\ paid_searches' = [paid_searches EXCEPT ![u] = r.paid]
        /\ use_log' = [use_log EXCEPT ![u] = Append(@,
              [free_before |-> free_searches[u], paid_before |-> paid_searches[u],
               free_after |-> r.free, paid_after |-> r.paid,
               success |-> r.success, was_free |-> r.was_free,
               error |-> r.error])]
        /\ IF no_faces(hd.items)
           THEN /\ handlers' = [handlers EXCEPT ![h] = IdleHandler]
                /\ Send({Msg("no_matches", u, 0, 0)})
                /\ UNCHANGED <<pending_results, last_search_by_user>>
           ELSE /\ pending_results' =
                      Put(pending_results, hd.search_id, Stored(hd.items, u))
                /\ last_search_by_user' =
                      last_search(last_search_by_user, u, hd.search_id)
                /\ handlers' = [handlers EXCEPT ![h].pc = "delivering"]
                /\ UNCHANGED sent
        /\ UNCHANGED <<now, client, today, registered, last_free_grant_date, grants,
                       giftVars, payments, confirmations, pending_photos,
                       pending_reminders, reminder_tasks, photos_sent,
                       next_search_id>>

\* execute_free_search, line 833: faces[:FREE_RESULTS_COUNT]
free_shown_All(items) == items
free_shown(items) == Min(items, FREE_RESULTS_COUNT)
\* execute_paid_search, line 696: faces[:10]
paid_shown(items) == Min(items, PAID_RESULTS_COUNT)

(***************************************************************************)
(* The delivery.  execute_free_search, lines 825-885: the first items     *)
(* with the link hidden and an unlock button each, the unlock-all offer,  *)
(* and the reminder task.  execute_paid_search, lines 693-724: the first  *)
(* ten items with their links.                                             *)
(***************************************************************************)
Deliver(h) ==
    LET hd == handlers[h]
        u == hd.user
        sid == hd.search_id
    IN  /\ hd.pc = "delivering"
        /\ IF hd.kind = "free"
           THEN /\ Send({Msg("item_hidden", u, sid, i) :
                            i \in 0..(free_shown(hd.items) - 1)}
                        \cup {Msg("unlock_all_offer", u, sid, 0)})
                /\ reminder_tasks' = Put(reminder_tasks, sid,
                      [user |-> u, due |-> now + REMINDER_DELAY_SECONDS,
                       state |-> "sleeping"])
                /\ pending_reminders' = pending_reminders \cup {sid}
           ELSE /\ Send({Msg("item_with_url", u, sid, i) :
                            i \in 0..(paid_shown(hd.items) - 1)})
                /\ UNCHANGED <<reminder_tasks, pending_reminders>>
        /\ handlers' = [handlers EXCEPT ![h] = IdleHandler]
        /\ UNCHANGED <<now, client, ledgerVars, giftVars, payments, confirmations,
                       pending_results, pending_photos, last_search_by_user,
                       photos_sent, next_search_id>>

(***************************************************************************)
(* Payment confirmations.  A payload is its leading words and its         *)
(* arguments: "unlock_all_<id>" is <<"unlock", "all">> with <<id>>, and    *)
(* "unlock_<id>_<index>" is <<"unlock">> with <<id, index>>.              *)
(***************************************************************************)
Payload(prefix, args) == [prefix |-> prefix, args |-> args]
PaidSearchPayload == Payload(<<"paid", "search">>, <<>>)
Buy1Payload == Payload(<<"buy", "1", "search">>, <<>>)
Buy5Payload == Payload(<<"buy", "5", "searches">>, <<>>)
UnlockAllPayload(search_id) == Payload(<<"unlock", "all">>, <<search_id>>)
UnlockPayload(search_id, idx) == Payload(<<"unlock">>, <<search_id, idx>>)

Payloads ==
    {PaidSearchPayload, Buy1Payload, Buy5Payload}
    \cup {UnlockAllPayload(sid) : sid \in SearchIds}
    \cup {UnlockPayload(sid, i) : sid \in SearchIds, i \in UnlockIndexes}

\* str.startswith, and str.split("_")
StartsWith(payload, words) ==
    /\ Len(payload.prefix) >= Len(words)
    /\ SubSeq(payload.prefix, 1, Len(words)) = words
Parts(payload) == payload.prefix \o payload.args

\* The if / elif chain of handle_successful_payment, lines 541-615.
Branch_UnlockFirst(payload) ==
    IF payload = PaidSearchPayload THEN "paid_search"
    ELSE IF payload = Buy1Payload THEN "buy_1_search"
    ELSE IF payload = Buy5Payload THEN "buy_5_searches"
    ELSE IF StartsWith(payload, <<"unlock">>) THEN "unlock"
    ELSE "other"
Branch_AnyUnlockIsAll(payload) ==
    IF payload = PaidSearchPayload THEN "paid_search"
    ELSE IF payload = Buy1Payload THEN "buy_1_search"
    ELSE IF payload = Buy5Payload THEN "buy_5_searches"
    ELSE IF StartsWith(payload, <<"unlock">>) THEN "unlock_all"
    ELSE "other"
Branch(payload) ==
    IF payload = PaidSearchPayload THEN "paid_search"
    ELSE IF payload = Buy1Payload THEN "buy_1_search"
    ELSE IF payload = Buy5Payload THEN "buy_5_searches"
    ELSE IF StartsWith(payload, <<"unlock", "all">>) THEN "unlock_all"
    ELSE IF StartsWith(payload, <<"unlock">>) THEN "unlock"
    ELSE "other"

\* total_amount of the confirmation: what the invoice of the payload asked.
Stars(payload) == IF payload = Buy5Payload THEN 5 ELSE 1

\* A confirmation Telegram delivers: one it has delivered before, or a new
\* one, whose telegram_payment_charge_id is new.
PaymentIdsSeen == {c.payment_id : c \in confirmations}
Deliverable(payloads) ==
    confirmations \cup
    {[user |-> u, payload |-> pl, payment_id |-> Cardinality(PaymentIdsSeen) + 1] :
        u \in Users, pl \in payloads}

\* lines 541-552: the paid search.
PaidSearchBranch(h, c) ==
    LET u == c.user
    IN  /\ payments' = record_payment(payments, u, Stars(c.payload), 1, c.payment_id)
        /\ IF u \notin DOMAIN pending_photos
           THEN /\ Send({Msg("photo_not_found", u, 0, 0)})
                /\ UNCHANGED <<pending_photos, handlers>>
           ELSE /\ FreeSlot(h)
                /\ pending_photos' = Pop(pending_photos, u)
                /\ handlers' = [handlers EXCEPT ![h] =
                      [IdleHandler EXCEPT !.pc = "searching", !.kind = "paid",
                                          !.user = u,
                                          !.photo = pending_photos[u]]]
                /\ Send({Msg("searching", u, 0, 0)})
        /\ UNCHANGED <<ledgerVars, pending_results, pending_reminders,
                       reminder_tasks>>

\* lines 554-570: the purchase of n searches; the answer of
\* db.add_paid_searches is not looked at, and the write is taken to succeed.
BuyBranch_GrantOne(c, n) ==
    /\ paid_searches' = [paid_searches EXCEPT
                            ![c.user] = add_paid_searches(@, 1, TRUE)]
    /\ payments' = record_payment(payments, c.user, Stars(c.payload), 1, c.payment_id)
    /\ Send({Msg("searches_added", c.user, 0, 1)})
    /\ UNCHANGED <<today, registered, free_searches, last_free_grant_date,
                   grants, use_log, pending_results, pending_photos,
                   pending_reminders, reminder_tasks, handlers>>
BuyBranch(c, n) ==
    /\ paid_searches' = [paid_searches EXCEPT
                            ![c.user] = add_paid_searches(@, n, TRUE)]
    /\ payments' = record_payment(payments, c.user, Stars(c.payload), n, c.payment_id)
    /\ Send({Msg("searches_added", c.user, 0, n)})
    /\ UNCHANGED <<today, registered, free_searches, last_free_grant_date,
                   grants, use_log, pending_results, pending_photos,
                   pending_reminders, reminder_tasks, handlers>>

\* task.cancel(): a sleeping task ends without sending.
Cancelled(tasks, search_id) ==
    IF search_id \in DOMAIN tasks /\ tasks[search_id].state = "sleeping"
    THEN [tasks EXCEPT ![search_id].state = "cancelled"]
    ELSE tasks

\* line 582: results["_unlocked"] = True, on the dict that stays in
\* pending_results.
mark_unlocked_Pop(results, search_id) == Pop(results, search_id)
mark_unlocked(results, search_id) == [results EXCEPT ![search_id]._unlocked = TRUE]

\* lines 572-613: unlock all.
UnlockAllBranch(c) ==
    LET u == c.user
        search_id == c.payload.args[1]
    IN  /\ IF search_id \in pending_reminders
           THEN /\ reminder_tasks' = Cancelled(reminder_tasks, search_id)
                /\ pending_reminders' = pending_reminders \ {search_id}
           ELSE UNCHANGED <<reminder_tasks, pending_reminders>>
        /\ IF search_id \in DOMAIN pending_results /\ ~is_result_expired(search_id)
           THEN /\ pending_results' = mark_unlocked(pending_results, search_id)
                /\ Send({Msg("link", u, search_id, i) :
                            i \in 0..(paid_shown(pending_results[search_id].items) - 1)}
                        \cup {Msg("upsell", u, 0, 0)})
           ELSE /\ Send({Msg("expired", u, search_id, 0)})
                /\ UNCHANGED pending_results
        /\ payments' = record_payment(payments, u, Stars(c.payload), 0, c.payment_id)
        /\ UNCHANGED <<ledgerVars, pending_photos, handlers>>

\* lines 615-640: unlock one result.
UnlockBranch(c) ==
    LET u == c.user
        parts == Parts(c.payload)
        search_id == parts[2]
        result_index == parts[3]
    IN  /\ IF search_id \in DOMAIN pending_results /\ ~is_result_expired(search_id)
           THEN IF result_index < pending_results[search_id].items
                THEN Send({Msg("link", u, search_id, result_index)})
                ELSE UNCHANGED sent
           ELSE Send({Msg("expired", u, search_id, 0)})
        /\ payments' = record_payment(payments, u, Stars(c.payload), 0, c.payment_id)
        /\ UNCHANGED <<ledgerVars, pending_results, pending_photos,
                       pending_reminders, reminder_tasks, handlers>>

\* handle_successful_payment, lines 531-640.
HandleSuccessfulPayment(h, c) ==
    /\ Len(payments) < MaxPayments
    /\ confirmations' = confirmations \cup {c}
    /\ \/ Branch(c.payload) = "paid_search" /\ PaidSearchBranch(h, c)
       \/ Branch(c.payload) = "buy_1_search" /\ h = 1 /\ BuyBranch(c, 1)
       \/ Branch(c.payload) = "buy_5_searches" /\ h = 1 /\ BuyBranch(c, 5)
       \/ Branch(c.payload) = "unlock_all" /\ h = 1 /\ UnlockAllBranch(c)
       \/ Branch(c.payload) = "unlock" /\ h = 1 /\ UnlockBranch(c)
    /\ UNCHANGED <<now, client, giftVars, last_search_by_user, photos_sent,
                   next_search_id>>

(***************************************************************************)
(* schedule_expiry_reminder, lines 87-112, once its sleep is over.        *)
(***************************************************************************)
\* lines 110-112, the `finally`: the task's entry leaves pending_reminders.
del_reminder_Skip(reminders, search_id) == reminders
del_reminder(reminders, search_id) == reminders \ {search_id}

ReminderFire(search_id) ==
    /\ search_id \in DOMAIN reminder_tasks
    /\ reminder_tasks[search_id].state = "sleeping"
    /\ now >= reminder_tasks[search_id].due
    /\ IF /\ search_id \in DOMAIN pending_results
          /\ ~pending_results[search_id]._unlocked
       THEN Send({Msg("reminder", reminder_tasks[search_id].user, search_id, 0)})
       ELSE UNCHANGED sent
    /\ pending_reminders' = del_reminder(pending_reminders, search_id)
    /\ reminder_tasks' = [reminder_tasks EXCEPT ![search_id].state = "finished"]
    /\ UNCHANGED <<now, client, ledgerVars, giftVars, payments, confirmations,
                   pending_results, pending_photos, last_search_by_user,
                   handlers, photos_sent, next_search_id>>

\* The replies of /debug, one per command; MaxDebug bounds the commands.
MaxDebug == 1
DebugReplies == {"debug_no_search", "debug_stale", "debug_empty", "debug_all"}
DebugCount ==
    LET replies == {m \in BagToSet(sent) : m.kind \in DebugReplies}
    IN  BagCardinality([m \in replies |-> sent[m]])

(***************************************************************************)
(* cmd_debug, lines 385-438: the user's last search, every item of it with *)
(* its URL.  The header line carries the number of items, and each item's  *)
(* line its URL.                                                           *)
(***************************************************************************)
CmdDebug(u) ==
    /\ DebugCount < MaxDebug
    /\ IF u \notin DOMAIN last_search_by_user
       THEN Send({Msg("debug_no_search", u, 0, 0)})
       ELSE LET search_id == last_search_by_user[u]
            IN  IF search_id \notin DOMAIN pending_results
                THEN Send({Msg("debug_stale", u, search_id, 0)})
                ELSE IF pending_results[search_id].items = 0
                THEN Send({Msg("debug_empty", u, search_id, 0)})
                ELSE Send({Msg("debug_all", u, search_id,
                               pending_results[search_id].items)}
                          \cup {Msg("debug_url", u, search_id, i) :
                                  i \in 0..(pending_results[search_id].items - 1)})
    /\ UNCHANGED <<now, client, ledgerVars, giftVars, payments, confirmations,
                   pending_results, pending_photos, last_search_by_user,
                   pending_reminders, reminder_tasks, handlers, photos_sent,
                   next_search_id>>

\* The clock moves on to a later instant, not past a sleep that is due.
Tick(t) ==
    /\ t > now
    /\ \A sid \in DOMAIN reminder_tasks :
          reminder_tasks[sid].state = "sleeping" => reminder_tasks[sid].due >= t
    /\ now' = t
    /\ UNCHANGED <<ledgerVars, giftVars, botVars, client>>

\* The backend's date moves on to the next day.
NextDay ==
    /\ today < MaxDay
    /\ today' = today + 1
    /\ UNCHANGED <<now, client, registered, free_searches, paid_searches,
                   last_free_grant_date, grants, use_log, giftVars, botVars>>

(***************************************************************************)
(* The bot at work: a user is unknown, or is known with today's grant     *)
(* made and balances 0 or 1.                                               *)
(***************************************************************************)
InitBot ==
    /\ now = 0
    /\ today = 0
    /\ registered \in SUBSET Users
    /\ free_searches \in [Users -> 0..1]
    /\ paid_searches \in [Users -> 0..1]
    /\ \A u \in Users \ registered : free_searches[u] = 0 /\ paid_searches[u] = 0
    /\ last_free_grant_date =
          [u \in Users |-> IF u \in registered THEN Some(today) ELSE None]
    /\ grants = [u \in Users |-> IF u \in registered THEN <<today>> ELSE <<>>]
    /\ use_log = [u \in Users |-> <<>>]
    /\ InitGift
    /\ InitBotEmpty
    /\ client = IdleClient

\* handle_photo and the searches it and the paid-search payment run.
SearchStep ==
    \/ \E h \in Handlers, u \in Users : HandlePhotoBegin(h, u)
    \/ \E h \in Handlers : HandlePhotoCredits(h)
    \/ \E h \in Handlers : HandlePhotoDecide(h)
    \/ \E h \in Handlers, outcome \in GatewayOutcomes : GatewayReturn(h, outcome)
    \/ \E h \in Handlers : UseSearch(h)
    \/ \E h \in Handlers : Deliver(h)

(***************************************************************************)
(* SpecSearch: photos, their searches, and the paid-search payments.      *)
(***************************************************************************)
NextSearch ==
    \/ SearchStep
    \/ \E h \in Handlers, c \in Deliverable({PaidSearchPayload}) :
          HandleSuccessfulPayment(h, c)

SpecSearch == InitBot /\ [][NextSearch]_vars

(***************************************************************************)
(* SpecSession: stored results as time passes: the searches that store    *)
(* them, the unlock payments that read them, the reminders, the clock.    *)
(* Every user starts known, with one free search.                         *)
(***************************************************************************)
FewPhotos == 1

InitSession ==
    /\ InitBot
    /\ registered = Users
    /\ \A u \in Users : free_searches[u] = 1 /\ paid_searches[u] = 0

UnlockPayloads ==
    {UnlockAllPayload(sid) : sid \in SearchIds}
    \cup {UnlockPayload(sid, i) : sid \in SearchIds, i \in UnlockIndexes}

NextSession ==
    \/ SearchStep /\ photos_sent' <= FewPhotos
    \/ \E c \in Deliverable(UnlockPayloads) : HandleSuccessfulPayment(1, c)
    \/ \E sid \in SearchIds : ReminderFire(sid)
    \/ \E t \in TimePoints : Tick(t)

SpecSession == InitSession /\ [][NextSession]_vars

(***************************************************************************)
(* SpecGrant: the daily free search: /start, photos and their searches,   *)
(* and the change of day.                                                 *)
(***************************************************************************)
NextGrant ==
    \/ \E u \in Users : CmdStart(u)
    \/ SearchStep /\ photos_sent' <= FewPhotos
    \/ NextDay

SpecGrant == InitBot /\ [][NextGrant]_vars

(***************************************************************************)
(* SpecPay: payment confirmations of every payload, delivered once or     *)
(* again, beside one photo.                                               *)
(***************************************************************************)
NextPay ==
    \/ SearchStep /\ photos_sent' <= FewPhotos
    \/ \E h \in Handlers, c \in Deliverable(Payloads) : HandleSuccessfulPayment(h, c)

SpecPay == InitBot /\ [][NextPay]_vars

(***************************************************************************)
(* SpecBalance: everything that moves a user's balances, interleaved: two  *)
(* photos and their searches, a purchase, /start and the change of day,    *)
(* and a gift-card redemption, all of user 1, who starts with one free     *)
(* search.  A search that completes carries one item.                      *)
(***************************************************************************)
FewPayments == 1

NextBalance ==
    \/ \E h \in Handlers : HandlePhotoBegin(h, 1)
    \/ \E h \in Handlers : HandlePhotoCredits(h)
    \/ \E h \in Handlers : HandlePhotoDecide(h)
    \/ \E h \in Handlers : GatewayReturn(h, [status |-> "ok", items |-> 1])
    \/ \E h \in Handlers : UseSearch(h)
    \/ \E h \in Handlers : Deliver(h)
    \/ \E c \in Deliverable({Buy1Payload, Buy5Payload}) :
          /\ c.user = 1
          /\ HandleSuccessfulPayment(1, c)
          /\ Len(payments') <= FewPayments
    \/ CmdStart(1)
    \/ NextDay
    \/ \E c \in {Code1, Code2} : RedeemValidate(1, 1, c, TRUE)
    \/ \E ok \in BOOLEAN : RedeemCredit(1, ok)
    \/ RedeemMark(1)
    \/ RedeemLog(1)

SpecBalance == InitSession /\ [][NextBalance]_vars

(***************************************************************************)
(* SpecReveal: what is sent of a free search's session: the search, an     *)
(* unlock payment, the reminder, /debug, and the clock.                    *)
(***************************************************************************)
NextReveal ==
    \/ SearchStep /\ photos_sent' <= FewPhotos
    \/ \E c \in Deliverable(UnlockPayloads) :
          HandleSuccessfulPayment(1, c) /\ Len(payments') <= FewPayments
    \/ \E sid \in SearchIds : ReminderFire(sid)
    \/ \E u \in Users : CmdDebug(u)
    \/ \E t \in TimePoints : Tick(t)

SpecReveal == InitSession /\ [][NextReveal]_vars

(***************************************************************************)
(* SpecGateway: one find_face call against a provider that is still       *)
(* working for 0..MaxPolls answers, or for ever.  The event loop runs the  *)
(* call's next step and the provider answers every request: weak fairness. *)
(***************************************************************************)
InitGateway ==
    /\ now = 0 /\ InitLedgerZero /\ InitGift /\ InitBotEmpty
    /\ client \in {[IdleClient EXCEPT !.busy_left = k] : k \in -1..MaxPolls}

NextGateway ==
    \/ \E with_callback \in BOOLEAN : FindFace(with_callback)
    \/ \E r \in UploadResponses : UploadResponds(r)
    \/ SearchRequest
    \/ \E r \in StatusResponses : SearchResponds(r)
    \/ SleepOver

SpecGateway == InitGateway /\ [][NextGateway]_vars /\ WF_vars(NextGateway)

(***************************************************************************)
(* The gift-code dialogue, src/src/gift_card_handlers.py.  A message is   *)
(* its text; the dialogue state of a user is the FSM state aiogram keeps  *)
(* for the user.                                                           *)
(***************************************************************************)
RedeemText == <<"/", "r", "e", "d", "e", "e", "m">>
CancelText == <<"/", "c", "a", "n", "c", "e", "l">>
DialogueTexts ==
    {RedeemText, CancelText, Code1, format_code(Code1), CodeUnknown,
     SubSeq(Code1, 1, 11)}

\* The replies of the dialogue other than the answer of redeem_code;
\* MaxDialogue bounds them.
MaxDialogue == 3
DialogueReplies ==
    {"enter_code", "invalid_code_format", "nothing_to_cancel",
     "operation_cancelled"}
DialogueCount ==
    LET replies == {m \in BagToSet(sent) : m.kind \in DialogueReplies}
    IN  BagCardinality([m \in replies |-> sent[m]])

botQuiet == <<payments, confirmations, pending_results, pending_photos,
              last_search_by_user, pending_reminders, reminder_tasks,
              handlers, photos_sent, next_search_id>>

\* register_gift_card_handlers, lines 101-108: the message handlers in the
\* order of their registration; a message goes to the first whose filter
\* passes: Command("redeem"), then the state waiting_for_code, then
\* Command("cancel").
Routed(state, text) ==
    IF text = RedeemText THEN "cmd_redeem"
    ELSE IF state = "waiting_for_code" THEN "process_gift_code"
    ELSE IF text = CancelText THEN "cmd_cancel"
    ELSE "unhandled"

\* cmd_redeem, lines 24-31.
CmdRedeem(u, text) ==
    /\ Routed(fsm_state[u], text) = "cmd_redeem"
    /\ DialogueCount < MaxDialogue
    /\ fsm_state' = [fsm_state EXCEPT ![u] = "waiting_for_code"]
    /\ Send({Msg("enter_code", u, 0, 0)})
    /\ UNCHANGED <<now, client, ledgerVars, botQuiet, gift_cards,
                   gift_card_redemptions, redeem_calls, answered>>

\* callback_redeem, lines 89-98: the redeem button.
CallbackRedeem(u) ==
    /\ DialogueCount < MaxDialogue
    /\ fsm_state' = [fsm_state EXCEPT ![u] = "waiting_for_code"]
    /\ Send({Msg("enter_code", u, 0, 0)})
    /\ UNCHANGED <<now, client, ledgerVars, botQuiet, gift_cards,
                   gift_card_redemptions, redeem_calls, answered>>

\* process_gift_code, line 38:
\* `if not code or len(code.replace("-", "")) != 12`.
code_format_ok(code) == code # <<>> /\ Len(remove_dashes(code)) = 12

\* process_gift_code, lines 34-45: the format test, and the call of
\* redeem_code, which runs to its first await.
ProcessGiftCode(p, u, text, select_ok) ==
    /\ Routed(fsm_state[u], text) = "process_gift_code"
    /\ IF code_format_ok(text)
       THEN RedeemValidate(p, u, text, select_ok)
       ELSE /\ DialogueCount < MaxDialogue
            /\ Send({Msg("invalid_code_format", u, 0, 0)})
            /\ UNCHANGED <<now, client, ledgerVars, botQuiet, giftVars>>

\* process_gift_code, lines 45-57, once redeem_code has returned: the
\* answer, and state.clear().
GiftCodeEnd(p) ==
    LET call == redeem_calls[p]
    IN  /\ call.pc = "done"
        /\ call.result \in {"success", "not_found", "already_redeemed",
                            "error_adding"}
        /\ p \notin answered
        /\ answered' = answered \cup {p}
        /\ Send({Msg(call.result, call.telegram_id, 0, 0)})
        /\ fsm_state' = [fsm_state EXCEPT ![call.telegram_id] = "none"]
        /\ UNCHANGED <<now, client, ledgerVars, botQuiet, gift_cards,
                       gift_card_redemptions, redeem_calls>>

\* cmd_cancel, lines 60-68.
CmdCancel(u, text) ==
    /\ Routed(fsm_state[u], text) = "cmd_cancel"
    /\ DialogueCount < MaxDialogue
    /\ IF fsm_state[u] = "none"
       THEN /\ Send({Msg("nothing_to_cancel", u, 0, 0)})
            /\ UNCHANGED fsm_state
       ELSE /\ fsm_state' = [fsm_state EXCEPT ![u] = "none"]
            /\ Send({Msg("operation_cancelled", u, 0, 0)})
    /\ UNCHANGED <<now, client, ledgerVars, botQuiet, gift_cards,
                   gift_card_redemptions, redeem_calls, answered>>

(***************************************************************************)
(* SpecGift: redeem_code calls interleaved at their awaits.               *)
(* SpecGiftSeq: one call at a time, as the dispatcher serves one chat.    *)
(***************************************************************************)
InitGiftSpec ==
    now = 0 /\ InitLedgerZero /\ InitGift /\ InitBotEmpty /\ client = IdleClient

NextGift ==
    \/ \E p \in Calls, u \in Users, c \in CodeInputs, ok \in BOOLEAN :
          RedeemValidate(p, u, c, ok)
    \/ \E p \in Calls, ok \in BOOLEAN : RedeemCredit(p, ok)
    \/ \E p \in Calls : RedeemMark(p)
    \/ \E p \in Calls : RedeemLog(p)

NextGiftSeq ==
    \/ \E p \in Calls, u \in Users, c \in CodeInputs, ok \in BOOLEAN :
          /\ \A q \in Calls : ~InFlight(q)
          /\ RedeemValidate(p, u, c, ok)
    \/ \E p \in Calls, ok \in BOOLEAN : RedeemCredit(p, ok)
    \/ \E p \in Calls : RedeemMark(p)
    \/ \E p \in Calls : RedeemLog(p)

SpecGift == InitGiftSpec /\ [][NextGift]_vars
SpecGiftSeq == InitGiftSpec /\ [][NextGiftSeq]_vars

\* SpecGiftCrash: one call at a time, and a call may be cut short.
NextGiftCrash ==
    \/ NextGiftSeq
    \/ \E p \in Calls : RedeemCrash(p)

SpecGiftCrash == InitGiftSpec /\ [][NextGiftCrash]_vars

\* SpecDialogue: the messages of the gift-code dialogue and the redeem_code
\* calls they start.
NextDialogue ==
    \/ \E u \in Users, text \in DialogueTexts : CmdRedeem(u, text)
    \/ \E u \in Users : CallbackRedeem(u)
    \/ \E p \in Calls, u \in Users, text \in DialogueTexts, ok \in BOOLEAN :
          ProcessGiftCode(p, u, text, ok)
    \/ \E u \in Users, text \in DialogueTexts : CmdCancel(u, text)
    \/ \E p \in Calls, ok \in BOOLEAN : RedeemCredit(p, ok)
    \/ \E p \in Calls : RedeemMark(p)
    \/ \E p \in Calls : RedeemLog(p)
    \/ \E p \in Calls : GiftCodeEnd(p)

SpecDialogue == InitGiftSpec /\ [][NextDialogue]_vars


(***************************************************************************)
(* Claims about redeem_code.                                               *)
(***************************************************************************)
Done(p) == redeem_calls[p].pc = "done"
Returns(p) == redeem_calls[p].pc # "done" /\ redeem_calls'[p].pc = "done"

CreditedOn(code) ==
    {q \in Calls : /\ redeem_calls[q].pc \in {"credited", "marked", "done"}
                   /\ redeem_calls[q].card # None
                   /\ redeem_calls[q].result \in {"none", "success"}
                   /\ redeem_calls[q].card[1].code = code}

\* C2, as stated: over every interleaving of redeem_code calls on a card, at
\* most one call returns success and the card's amount is credited at most
\* once.
C2_AtMostOneRedemption ==
    \A c \in KnownCodes :
        /\ Cardinality(SucceededOn(c)) <= 1
        /\ Cardinality(CreditedOn(c)) <= 1

\* C3, as stated: a redeem_code call on an existing unredeemed card, in any
\* spelling of its code, returns success, adds the card's amount to the
\* caller's paid_searches, leaves free_searches, marks the card redeemed by
\* the caller and appends one redemption record.
RedeemedByCall(p) ==
    LET call == redeem_calls'[p]
        u == call.telegram_id
    IN  \A c \in CardsSpelled(call.code) :
        /\ call.result = "success"
        /\ paid_searches'[u] = call.paid_before + CardAmount(c)
        /\ free_searches'[u] = call.free_before
        /\ gift_cards'[c].is_redeemed
        /\ gift_cards'[c].redeemed_by = Some(u)
        /\ Len(gift_card_redemptions') = call.log_before + 1
        /\ gift_card_redemptions'[Len(gift_card_redemptions')].code = c
        /\ gift_card_redemptions'[Len(gift_card_redemptions')].telegram_id = u

C5_FreeBeforePaid ==
    \A u \in Users : \A i \in 1..Len(use_log[u]) :
        LET e == use_log[u][i]
            first == use_log[u][1]
        IN  /\ e.free_before > 0 =>
                /\ e.success /\ e.was_free
                /\ e.free_after = e.free_before - 1
                /\ e.paid_after = e.paid_before
            /\ (e.free_before = 0 /\ e.paid_before > 0) =>
                /\ e.success /\ ~e.was_free
                /\ e.paid_after = e.paid_before - 1
                /\ e.free_after = 0
            /\ first.paid_before = 0 => (e.success <=> i <= first.free_before)

\* C5, witness: from free = 2, paid = 0, three calls: free to 1 with
\* was_free, free to 0, and the third fails.
C5_Witness ==
    \E u \in Users :
        /\ Len(use_log[u]) = 3
        /\ use_log[u][1].free_before = 2 /\ use_log[u][1].paid_before = 0
        /\ use_log[u][1].was_free /\ use_log[u][1].free_after = 1
        /\ use_log[u][2].success /\ use_log[u][2].free_after = 0
        /\ ~use_log[u][3].success


(***************************************************************************)
(* Claims about photos and their searches.                                 *)
(***************************************************************************)
Last(log) == log[Len(log)]
StartsSearch(h) == handlers[h].pc # "searching" /\ handlers'[h].pc = "searching"

SentOf(bag, kinds, search_id) ==
    {m \in BagToSet(bag) : m.kind \in kinds /\ m.search_id = search_id}

\* C8: when a free search has completed with n >= 1 items and the user's
\* free_searches is >= 1 at the call of use_search, free_searches goes down
\* by exactly one and paid_searches stays, one session is stored, and the
\* delivery sends exactly min(n, 3) items, none with its source URL, and
\* schedules exactly one reminder task for the session.
C8_FreeDelivery ==
    [][\A h \in Handlers :
        LET hd == handlers[h]
            u == hd.user
            sid == hd.search_id
            n == hd.items
        IN  /\ (/\ hd.pc = "got_result" /\ handlers'[h].pc # "got_result"
                /\ n >= 1 /\ free_searches[u] >= 1) =>
                    /\ free_searches'[u] = free_searches[u] - 1
                    /\ paid_searches'[u] = paid_searches[u]
                    /\ sid \notin DOMAIN pending_results
                    /\ DOMAIN pending_results' = DOMAIN pending_results \cup {sid}
                    /\ pending_results'[sid].items = n
                    /\ handlers'[h].pc = "delivering"
            /\ (/\ hd.pc = "delivering" /\ hd.kind = "free"
                /\ handlers'[h].pc # "delivering") =>
                    /\ Cardinality(SentOf(sent', {"item_hidden"}, sid)) =
                          (IF n < 3 THEN n ELSE 3)
                    /\ \A m \in SentOf(sent', {"item_hidden"}, sid) :
                          CopiesIn(m, sent') = 1 /\ m.to = u
                    /\ SentOf(sent', {"item_with_url", "link"}, sid) = {}
                    /\ sid \notin DOMAIN reminder_tasks
                    /\ DOMAIN reminder_tasks' = DOMAIN reminder_tasks \cup {sid}
                    /\ reminder_tasks'[sid].state = "sleeping"
                    /\ pending_reminders' = pending_reminders \cup {sid}]_vars

\* C8, witness: a user's one free search was spent on a search of 4 items:
\* the session is stored, 3 items were sent without link, and the reminder
\* sleeps.
C8_Witness ==
    \E u \in Users, sid \in SearchIds :
        /\ Len(use_log[u]) = 1
        /\ use_log[u][1].free_before = 1 /\ use_log[u][1].free_after = 0
        /\ sid \in DOMAIN pending_results
        /\ pending_results[sid].items = 4 /\ pending_results[sid].user = u
        /\ Cardinality(SentOf(sent, {"item_hidden"}, sid)) = 3
        /\ SentOf(sent, {"item_with_url", "link"}, sid) = {}
        /\ sid \in DOMAIN reminder_tasks
        /\ reminder_tasks[sid].state = "sleeping"
        /\ \A h \in Handlers : handlers[h].pc = "idle"


(***************************************************************************)
(* Claims about stored results and time.                                   *)
(***************************************************************************)
\* C6: for every search id, is_result_expired is true when nothing is
\* stored under it; it is false right after the store; it is false while
\* no more than 1800 seconds have passed since the store, at exactly 1800
\* too, and true once more than 1800 have passed; and once true for a
\* stored session it stays true.
C6_ExpiryAfterTTL ==
    /\ [](\A sid \in SearchIds :
            IF sid \notin DOMAIN pending_results
            THEN is_result_expired(sid)
            ELSE is_result_expired(sid) <=>
                    now - pending_results[sid]._created_at > 1800)
    /\ [][\A sid \in SearchIds :
            /\ (sid \notin DOMAIN pending_results
                /\ sid \in DOMAIN pending_results') =>
                   ~expired(pending_results', now', sid)
            /\ (sid \in DOMAIN pending_results /\ is_result_expired(sid)) =>
                   expired(pending_results', now', sid)]_vars

\* C6, witness: a session stored exactly 1800 seconds ago is not expired,
\* and a search id with nothing stored is.
C6_Witness ==
    \E sid, other \in SearchIds :
        /\ sid \in DOMAIN pending_results
        /\ now - pending_results[sid]._created_at = 1800
        /\ ~is_result_expired(sid)
        /\ other \notin DOMAIN pending_results
        /\ is_result_expired(other)

ContentKinds == {"item_hidden", "item_with_url", "link"}
\* Nothing is stored under the id, or it was stored more than 1800 seconds ago.
AbsentOrOld(sid) ==
    \/ sid \notin DOMAIN pending_results
    \/ now - pending_results[sid]._created_at > 1800

\* C7: when an unlock confirmation, of one item or of all, is handled while
\* its search id is absent from pending_results or expired, exactly one
\* payment record is appended, that of the confirmation, and no item or
\* link of that search id is sent.
C7_ExpiredUnlockPaysOnly ==
    [][\A c \in Deliverable(UnlockPayloads) :
        LET sid == c.payload.args[1]
        IN  (HandleSuccessfulPayment(1, c) /\ AbsentOrOld(sid)) =>
                /\ Len(payments') = Len(payments) + 1
                /\ SubSeq(payments', 1, Len(payments)) = payments
                /\ Last(payments').payment_id = c.payment_id
                /\ Last(payments').telegram_id = c.user
                /\ SentOf(sent', ContentKinds, sid) = SentOf(sent, ContentKinds, sid)
                /\ \A m \in SentOf(sent, ContentKinds, sid) :
                      CopiesIn(m, sent') = CopiesIn(m, sent)]_vars

\* C7, witness: an unlock was paid for a stored session after its expiry:
\* the payment is recorded, the user was told it expired, no link was sent.
C7_Witness ==
    \E sid \in DOMAIN pending_results :
        /\ AbsentOrOld(sid)
        /\ Len(payments) = 1
        /\ CopiesIn(Msg("expired", payments[1].telegram_id, sid, 0), sent) = 1
        /\ SentOf(sent, {"link"}, sid) = {}


(***************************************************************************)
(* Claims about the daily free search.                                     *)
(***************************************************************************)
Granted(u) == Len(grants'[u]) = Len(grants[u]) + 1
Bonus(u, day) == Msg("welcome_bonus", u, 0, day)

\* C9: for every user and day, however /start and photos follow each other
\* on that day, at most one grant call answers true and the grant raises
\* free_searches at most once, by one; a call answers true exactly when it
\* made the grant.
C9_OneGrantPerDay ==
    /\ [](\A u \in Users :
            /\ \A i, j \in 1..Len(grants[u]) : grants[u][i] = grants[u][j] => i = j
            /\ \A day \in 0..MaxDay : CopiesIn(Bonus(u, day), sent) <= 1)
    /\ [][\A u \in Users :
            /\ \A g \in BOOLEAN :
                  ContactAndGrant(u, g) => (g <=> Granted(u))
            /\ CmdStart(u) =>
                  (Granted(u) <=>
                      CopiesIn(Bonus(u, today), sent') =
                          CopiesIn(Bonus(u, today), sent) + 1)
            /\ Granted(u) =>
                  /\ Last(grants'[u]) = today
                  /\ free_searches'[u] =
                        (IF u \in registered THEN free_searches[u] ELSE 1) + 1
            /\ (~Granted(u) /\ u \in registered) =>
                  free_searches'[u] <= free_searches[u]]_vars

\* C9, witness: a new user sent /start and a photo on one day: one grant,
\* one bonus welcome, and free_searches is the starting one and the day's.
C9_Witness ==
    \E u \in Users, h \in Handlers :
        /\ today = 0
        /\ grants[u] = <<0>>
        /\ CopiesIn(Bonus(u, 0), sent) = 1
        /\ handlers[h].pc = "begun" /\ handlers[h].user = u
        /\ free_searches[u] = 2


(***************************************************************************)
(* Claims about payment confirmations.                                     *)
(***************************************************************************)
\* C10: handling a payment confirmation that was handled before leaves the
\* payment log and every paid_searches as the first handling left them: one
\* record per payment id, the searches credited once.
C10_IdempotentPayment ==
    [][\A c \in confirmations, h \in Handlers :
          HandleSuccessfulPayment(h, c) =>
              /\ payments' = payments
              /\ paid_searches' = paid_searches]_vars


(***************************************************************************)
(* Claims about unlocks and reminders.                                     *)
(***************************************************************************)
UnlockAllPayloads == {UnlockAllPayload(sid) : sid \in SearchIds}
SameContent(sid) ==
    /\ SentOf(sent', ContentKinds, sid) = SentOf(sent, ContentKinds, sid)
    /\ \A m \in SentOf(sent, ContentKinds, sid) :
          CopiesIn(m, sent') = CopiesIn(m, sent)

\* C11: when an unlock-all confirmation is handled for a session that is
\* stored, not expired and already marked unlocked, no item or link of the
\* session is sent again and no payment record is added.
C11_UnlockAllOnce ==
    [][\A c \in Deliverable(UnlockAllPayloads) :
        LET sid == c.payload.args[1]
        IN  (/\ HandleSuccessfulPayment(1, c)
             /\ ~AbsentOrOld(sid)
             /\ pending_results[sid]._unlocked) =>
                /\ SameContent(sid)
                /\ payments' = payments]_vars

ReminderSent(sid) ==
    \E u \in Users :
        CopiesIn(Msg("reminder", u, sid, 0), sent') >
            CopiesIn(Msg("reminder", u, sid, 0), sent)

\* C12: a free delivery schedules exactly one reminder task for its
\* session, due 1500 seconds after the delivery, and a paid delivery
\* schedules none; the reminder is sent only for a session that is stored,
\* not unlocked and not expired; and at most one is ever sent per session.
C12_OneReminder ==
    /\ [][/\ \A h \in Handlers :
               (handlers[h].pc = "delivering" /\ handlers'[h].pc # "delivering") =>
                   IF handlers[h].kind = "free"
                   THEN /\ handlers[h].search_id \notin DOMAIN reminder_tasks
                        /\ DOMAIN reminder_tasks' =
                              DOMAIN reminder_tasks \cup {handlers[h].search_id}
                        /\ reminder_tasks'[handlers[h].search_id].due = now + 1500
                        /\ reminder_tasks'[handlers[h].search_id].state = "sleeping"
                   ELSE reminder_tasks' = reminder_tasks
          /\ \A sid \in SearchIds :
               ReminderSent(sid) =>
                   /\ ~AbsentOrOld(sid)
                   /\ ~pending_results[sid]._unlocked]_vars
    /\ [](\A sid \in SearchIds, u \in Users :
             CopiesIn(Msg("reminder", u, sid, 0), sent) <= 1)

\* C13: when an unlock confirmation, of one item or of all, is handled for
\* a stored, not expired session whose reminder task still sleeps, the task
\* is cancelled and leaves pending_reminders; and no reminder is sent for a
\* session of which a link has been sent.
C13_UnlockCancelsReminder ==
    [][/\ \A c \in Deliverable(UnlockPayloads) :
            LET sid == c.payload.args[1]
            IN  (/\ HandleSuccessfulPayment(1, c)
                 /\ ~AbsentOrOld(sid)
                 /\ sid \in DOMAIN reminder_tasks
                 /\ reminder_tasks[sid].state = "sleeping") =>
                    /\ reminder_tasks'[sid].state = "cancelled"
                    /\ sid \notin pending_reminders'
       /\ \A sid \in SearchIds :
            ReminderSent(sid) => SentOf(sent, {"link"}, sid) = {}]_vars


(***************************************************************************)
(* Claims about the start and the end of a search.                         *)
(***************************************************************************)
Invoices(u) == CopiesIn(Msg("invoice_paid_search", u, 0, 0), sent)
InvoicesNext(u) == CopiesIn(Msg("invoice_paid_search", u, 0, 0), sent')

\* C14: when handle_photo has read free_searches > 0 or paid_searches > 0,
\* it starts the search and sends no invoice and keeps no photo; when it
\* has read 0 and 0 it sends the invoice and keeps the photo in
\* pending_photos under the user's id.
C14_SearchOnAnyCredit ==
    [][\A h \in Handlers :
        LET hd == handlers[h]
        IN  (hd.pc = "credits_read" /\ handlers'[h] # hd) =>
                IF hd.free_seen > 0 \/ hd.paid_seen > 0
                THEN /\ handlers'[h].pc = "searching"
                     /\ InvoicesNext(hd.user) = Invoices(hd.user)
                     /\ pending_photos' = pending_photos
                ELSE /\ handlers'[h].pc = "idle"
                     /\ InvoicesNext(hd.user) = Invoices(hd.user) + 1
                     /\ hd.user \in DOMAIN pending_photos'
                     /\ pending_photos'[hd.user] = hd.photo]_vars

\* The step in which a completed search is charged and stored: db.use_search
\* and the store of a free search, the store of a paid search.
ChargedAndStored(h) ==
    \/ handlers[h].pc = "got_result" /\ handlers'[h].pc # "got_result"
    \/ /\ handlers[h].pc = "searching" /\ handlers[h].kind = "paid"
       /\ next_search_id' = next_search_id + 1

\* C15: every search that completes takes exactly one credit by one
\* use_search call and stores exactly one session; it is a free delivery
\* exactly when the credit was a free one, a paid delivery exactly when it
\* was a paid one.
C15_OneCreditOneSession ==
    [][\A h \in Handlers :
        LET u == handlers[h].user
        IN  ChargedAndStored(h) =>
                /\ Len(use_log'[u]) = Len(use_log[u]) + 1
                /\ free_searches'[u] + paid_searches'[u] =
                      free_searches[u] + paid_searches[u] - 1
                /\ Cardinality(DOMAIN pending_results') =
                      Cardinality(DOMAIN pending_results) + 1
                /\ handlers[h].kind = "free" <=>
                      free_searches'[u] = free_searches[u] - 1
                /\ handlers[h].kind = "paid" <=>
                      paid_searches'[u] = paid_searches[u] - 1]_vars

\* C16: when find_face answers with no result or with an error (a failed
\* upload is one), the search ends there: its coroutine is over, no search
\* starts in its place, no photo is kept for it, no balance changes, no
\* use_search is called, no session is stored and no reminder scheduled.
C16_FailedSearchEnds ==
    [][\A h \in Handlers, outcome \in GatewayOutcomes :
          (GatewayReturn(h, outcome) /\ outcome.status \in {"none", "error"}) =>
              /\ handlers'[h].pc = "idle"
              /\ \A g \in Handlers : ~StartsSearch(g)
              /\ pending_photos' = pending_photos
              /\ free_searches' = free_searches
              /\ paid_searches' = paid_searches
              /\ use_log' = use_log
              /\ pending_results' = pending_results
              /\ last_search_by_user' = last_search_by_user
              /\ reminder_tasks' = reminder_tasks
              /\ pending_reminders' = pending_reminders]_vars

\* C16, witness: a user's only search ended with the provider's error: the
\* error was shown, the free search is still there, nothing is stored.
C16_Witness ==
    \E u \in Users :
        /\ CopiesIn(Msg("search_error", u, 0, 0), sent) = 1
        /\ photos_sent = 1
        /\ free_searches[u] = 1
        /\ use_log[u] = <<>>
        /\ DOMAIN pending_results = {}
        /\ DOMAIN reminder_tasks = {}
        /\ \A h \in Handlers : handlers[h].pc = "idle"


(***************************************************************************)
(* Claims about find_face.                                                 *)
(***************************************************************************)
\* The upload did not succeed, or its response carries no id_search (an
\* empty one counts as none).
UploadFailed(r) ==
    \/ r.kind = "raise"
    \/ r.http # 200
    \/ r.id_search = None
    \/ r.id_search = Some("")

\* C17: when the upload does not return success or its response carries no
\* id_search, find_face is over with the upload failure and no status
\* request was made; otherwise it goes on to the status requests, and every
\* one of them carries the id_search the upload returned.
C17_UploadGate ==
    client.upload # None =>
        LET r == client.upload[1]
        IN  IF UploadFailed(r)
            THEN /\ client.pc = "done"
                 /\ client.requests = 0 /\ client.request_ids = {}
                 /\ client.result =
                       (IF r.kind = "raise" THEN Some(Raises("upload"))
                        ELSE Some(ReturnsError("Failed to upload image")))
            ELSE /\ client.pc # "uploading"
                 /\ client.id_search = r.id_search
                 /\ client.request_ids \subseteq {r.id_search[1]}
                 /\ client.pc = "done" => client.requests >= 1

\* C17, witness: the upload answered 200 without an id_search, and
\* find_face returned the upload failure without a status request.
C17_Witness ==
    /\ client.upload = Some([kind |-> "http", http |-> 200, id_search |-> None])
    /\ client.pc = "done"
    /\ client.result = Some(ReturnsError("Failed to upload image"))
    /\ client.requests = 0

HasError(r) == r.error # None /\ r.error # Some("")
Reached100(r) == r.progress # None /\ r.progress[1] >= 100
Answered == client.pc = "awaiting" /\ client'.pc # "awaiting"

\* C18, as stated: the loop ends only on a status response that carries an
\* error (find_face returns that error) or whose progress has reached 100
\* (find_face returns that response); after every other response it sleeps
\* and asks again.
C18_Original ==
    [][Answered =>
          LET r == client'.last[1]
          IN  IF HasError(r)
              THEN client'.pc = "done"
                   /\ client'.result = Some(ReturnsError(r.error[1]))
              ELSE IF Reached100(r)
              THEN client'.pc = "done" /\ client'.result = Some(ReturnsData(r))
              ELSE client'.pc = "sleeping" /\ client'.result = None]_vars

\* C18, amended: the loop ends only when the status request raises (the
\* exception leaves find_face), on a response of another HTTP status than
\* 200 (find_face returns None), on a 200 that carries an error (the error
\* is returned) or on a 200 whose progress has reached 100 (the response is
\* returned); after every other response it sleeps and asks again, however
\* many there were, and the sleep is always followed by the next request.
C18_PollingEnds ==
    [][/\ Answered =>
            LET r == client'.last[1]
            IN  IF r.kind = "raise"
                THEN client'.pc = "done"
                     /\ client'.result = Some(Raises("search"))
                ELSE IF r.http # 200
                THEN client'.pc = "done" /\ client'.result = Some(ReturnsNone)
                ELSE IF HasError(r)
                THEN client'.pc = "done"
                     /\ client'.result = Some(ReturnsError(r.error[1]))
                ELSE IF Reached100(r)
                THEN client'.pc = "done"
                     /\ client'.result = Some(ReturnsData(r))
                ELSE client'.pc = "sleeping" /\ client'.result = None
       /\ (client.pc = "sleeping" /\ client' # client) =>
            client'.pc = "request" /\ client'.result = None
       /\ (client.pc = "request" /\ client' # client) =>
            client'.pc = "awaiting"]_vars

\* C18, witness: after MaxPolls answers "still working" the next status
\* request was answered with status 500, and find_face returned None.
C18_Witness ==
    /\ client.requests = MaxPolls + 1
    /\ client.last # None /\ client.last[1].http = 500
    /\ client.pc = "done"
    /\ client.result = Some(ReturnsNone)

\* C19: when the provider's answers "still working" come to an end,
\* find_face eventually returns, and it has returned as soon as a response
\* carried an error or a progress of 100 or more; when the provider answers
\* every status request "still working", find_face never returns.
C19_ReturnsIffProviderEnds ==
    /\ (client.busy_left # -1) ~> (client.pc = "done")
    /\ [](client.last # None =>
             ((HasError(client.last[1]) \/ Reached100(client.last[1]))
                 => client.pc = "done"))
    /\ []((client.busy_left = -1 /\ client.requests >= 1) => client.pc # "done")

\* C19, witness: the provider works for ever, and find_face sleeps before
\* yet another status request, past the counted ones.
C19_Witness ==
    /\ client.busy_left = -1
    /\ client.requests = MaxPolls + 1
    /\ client.pc = "sleeping"
    /\ client.result = None

\* C20: when find_face is called with a progress callback, the callback is
\* called on every status response whose progress differs from the one
\* before, and the call runs to the search's own end: None, the provider's
\* error or the complete response.
C20_CallbackOnEveryChange ==
    /\ [][(/\ client.on_progress /\ Answered
           /\ client'.last[1].kind = "http"
           /\ client'.last[1].progress # client.last_progress) =>
              client'.callback_calls = client.callback_calls + 1]_vars
    /\ []((client.on_progress /\ client.pc = "done") =>
             client.result[1].kind \in {"none", "error", "data"})

(***************************************************************************)
(* Claims about what a delivery reveals.                                   *)
(***************************************************************************)
\* C21: a paid delivery sends every item of the completed search with its
\* source URL, once each, whatever the number of items.
C21_PaidRevealsAll ==
    [][\A h \in Handlers :
        LET hd == handlers[h]
        IN  (/\ hd.pc = "delivering" /\ hd.kind = "paid"
             /\ handlers'[h].pc # "delivering") =>
                /\ Cardinality(SentOf(sent', {"item_with_url"}, hd.search_id)) =
                      hd.items
                /\ \A i \in 0..(hd.items - 1) :
                      CopiesIn(Msg("item_with_url", hd.user, hd.search_id, i),
                               sent') = 1]_vars

(***************************************************************************)
(* Claims about the failures of redeem_code.                               *)
(***************************************************************************)
WellFormed(code) == Len(remove_dashes(upper(code))) = 12
GiftState == <<free_searches, paid_searches, gift_cards, gift_card_redemptions>>

\* C22: a redeem_code call on an input whose normalized form has not
\* exactly 12 characters fails with an invalid-format error, which is not
\* the not-found error; it looks no card up and changes no balance, no card
\* and no redemption record.
C22_InvalidFormat ==
    [][\A p \in Calls :
          (Returns(p) /\ ~WellFormed(redeem_calls'[p].code)) =>
              /\ redeem_calls'[p].result = "invalid_format"
              /\ redeem_calls'[p].result # "not_found"
              /\ redeem_calls'[p].lookups = 0
              /\ GiftState' = GiftState]_vars

Failures == {"not_found", "already_redeemed", "error_adding"}
\* A step of the part of redeem_code a failing call consists of: the
\* validation, and a return with a failure.
FailingStep(p) ==
    /\ redeem_calls'[p] # redeem_calls[p]
    /\ \/ redeem_calls'[p].pc = "done" /\ redeem_calls'[p].result \in Failures
       \/ redeem_calls'[p].pc = "validated"

\* C23: a redeem_code call that fails, because no card has the code, because
\* the card is already redeemed or because crediting the user fails, has
\* changed nothing: every step it took left both balances of every user,
\* every card's is_redeemed, redeemed_by and redeemed_at and the redemption
\* records as they were; and a call that finds its card redeemed is such a
\* failure.
C23_FailedRedeemChangesNothing ==
    [][\A p \in Calls :
          /\ FailingStep(p) => GiftState' = GiftState
          /\ (redeem_calls[p].pc = "idle" /\ redeem_calls'[p].pc # "idle") =>
                \A c \in CardsSpelled(redeem_calls'[p].code) :
                    (redeem_calls'[p].select_ok /\ gift_cards[c].is_redeemed) =>
                        /\ redeem_calls'[p].pc = "done"
                        /\ redeem_calls'[p].result = "already_redeemed"]_vars

\* C23, witness: of two calls on one unredeemed card, the first failed at
\* crediting and the second found the card still unredeemed: the caller's
\* balance is as before and there is no redemption record.
C23_Witness ==
    \E p, q \in Calls :
        /\ p # q
        /\ Done(p) /\ redeem_calls[p].result = "error_adding"
        /\ redeem_calls[p].card[1].code = Code1
        /\ paid_searches[redeem_calls[p].telegram_id] = redeem_calls[p].paid_before
        /\ redeem_calls[q].pc = "validated"
        /\ redeem_calls[q].card[1].code = Code1
        /\ ~gift_cards[Code1].is_redeemed
        /\ gift_cards[Code1].redeemed_by = None
        /\ gift_card_redemptions = <<>>

(***************************************************************************)
(* Claims about purchases.                                                 *)
(***************************************************************************)
BuyPayloads == {Buy1Payload, Buy5Payload}
Bought(payload) == IF payload = Buy1Payload THEN 1 ELSE 5

C25_Overspend ==
    [][\A h \in Handlers :
        LET hd == handlers[h]
            u == hd.user
        IN  /\ (StartsSearch(h) /\ handlers'[h].kind = "free") =>
                   /\ hd.free_seen > 0
                   /\ use_log' = use_log
                   /\ free_searches' = free_searches
            /\ (/\ hd.pc = "got_result" /\ handlers'[h].pc # "got_result"
                /\ free_searches[u] = 0 /\ paid_searches[u] = 0) =>
                   /\ ~Last(use_log'[u]).success
                   /\ free_searches' = free_searches
                   /\ paid_searches' = paid_searches
                   /\ hd.items >= 1 =>
                         /\ handlers'[h].pc = "delivering"
                         /\ hd.search_id \in DOMAIN pending_results']_vars

\* C25, witness: two photos of a user with a single credit, a free one: both
\* handlers read free_searches = 1, the first use_search took it, the second
\* failed at 0 and 0, and both sessions are stored and being delivered.
C25_Witness ==
    \E u \in Users :
        /\ \A h \in Handlers :
              /\ handlers[h].user = u /\ handlers[h].pc = "delivering"
              /\ handlers[h].free_seen = 1 /\ handlers[h].paid_seen = 0
              /\ handlers[h].search_id \in DOMAIN pending_results
        /\ handlers[1].search_id # handlers[2].search_id
        /\ Len(use_log[u]) = 2
        /\ use_log[u][1].free_before = 1 /\ use_log[u][1].paid_before = 0
        /\ use_log[u][1].success
        /\ ~use_log[u][2].success
        /\ free_searches[u] = 0 /\ paid_searches[u] = 0

UrlKinds == {"item_with_url", "link", "debug_url"}
\* This step sends a source URL of the session sid.
RevealsUrl(sid) ==
    \E m \in BagToSet(sent') :
        /\ m.kind \in UrlKinds /\ m.search_id = sid
        /\ CopiesIn(m, sent') > CopiesIn(m, sent)

\* C27: a source URL of a free search's session is sent only in the step
\* that handles an unlock payment for that session, made while the session
\* is stored and not expired; no other command or event sends one.
C27_UrlsOnlyByPaidUnlock ==
    [][\A sid \in SearchIds :
          RevealsUrl(sid) =>
              \E c \in Deliverable(UnlockPayloads) :
                  /\ c.payload.args[1] = sid
                  /\ HandleSuccessfulPayment(1, c)
                  /\ ~AbsentOrOld(sid)]_vars

\* C28: when an unlock payment, of one item or of all, has been handled for
\* a session that is stored and not expired, the session's _unlocked flag
\* is true.
C28_UnlockSetsFlag ==
    [][\A c \in Deliverable(UnlockPayloads) :
        LET sid == c.payload.args[1]
        IN  (HandleSuccessfulPayment(1, c) /\ ~AbsentOrOld(sid)) =>
                pending_results'[sid]._unlocked]_vars

\* The step handles an unlock payment, of one item or of all, for sid.
UnlockAttempt(sid) ==
    \E c \in Deliverable(UnlockPayloads) :
        c.payload.args[1] = sid /\ HandleSuccessfulPayment(1, c)

CameToNothing(outcome) ==
    outcome.status \in {"none", "error"} \/ outcome.items = 0

\* C30: when a paid_search confirmation is handled for a user who has a
\* pending photo, the photo leaves pending_photos in that step, in which the
\* payment is recorded and the search starts on that photo; and when the
\* search then fails or finds nothing, the photo is not put back, the
\* payment record stays and no balance is raised.
C30_PoppedPhotoLost ==
    [][/\ \A c \in Deliverable({PaidSearchPayload}), h \in Handlers :
            (/\ c.payload = PaidSearchPayload
             /\ c.user \in DOMAIN pending_photos
             /\ HandleSuccessfulPayment(h, c)) =>
                /\ c.user \notin DOMAIN pending_photos'
                /\ StartsSearch(h)
                /\ handlers'[h].kind = "paid"
                /\ handlers'[h].user = c.user
                /\ handlers'[h].photo = pending_photos[c.user]
                /\ Len(payments') = Len(payments) + 1
                /\ Last(payments').payment_id = c.payment_id
       /\ \A h \in Handlers, outcome \in GatewayOutcomes :
            (/\ handlers[h].kind = "paid"
             /\ CameToNothing(outcome)
             /\ GatewayReturn(h, outcome)) =>
                /\ pending_photos' = pending_photos
                /\ payments' = payments
                /\ free_searches' = free_searches
                /\ paid_searches' = paid_searches
                /\ handlers'[h].pc = "idle"]_vars

\* C30, witness: a user without credits sent a photo and paid for the
\* search, and the search failed: the payment is recorded, no photo of the
\* user is pending, both balances are 0 and nothing is stored.
C30_Witness ==
    \E u \in Users :
        /\ Len(payments) = 1 /\ payments[1].telegram_id = u
        /\ payments[1].searches = 1
        /\ CopiesIn(Msg("invoice_paid_search", u, 0, 0), sent) = 1
        /\ CopiesIn(Msg("search_error", u, 0, 0), sent) = 1
        /\ u \notin DOMAIN pending_photos
        /\ free_searches[u] = 0 /\ paid_searches[u] = 0
        /\ DOMAIN pending_results = {}
        /\ \A h \in Handlers : handlers[h].pc = "idle"


(***************************************************************************)
(* Claims about the order of the writes of redeem_code.                   *)
(***************************************************************************)
\* The step of call p from one position of redeem_code to the next.
Moves(p, from, to) ==
    redeem_calls[p].pc = from /\ redeem_calls'[p].pc = to

\* The card a call works on, and what the call is to credit.
CardOf(p) == redeem_calls[p].card[1].code
AmountOf(p) == redeem_calls[p].card[1].searches_amount

C31_Order ==
    /\ paid_searches' # paid_searches =>
          \E p \in Calls :
             /\ Moves(p, "validated", "credited")
             /\ paid_searches'[redeem_calls[p].telegram_id] =
                   paid_searches[redeem_calls[p].telegram_id] + AmountOf(p)
             /\ UNCHANGED <<gift_cards, gift_card_redemptions>>
    /\ gift_cards' # gift_cards =>
          \E p \in Calls :
             /\ Moves(p, "credited", "marked")
             /\ gift_cards'[CardOf(p)].is_redeemed
             /\ UNCHANGED <<paid_searches, gift_card_redemptions>>
    /\ gift_card_redemptions' # gift_card_redemptions =>
          \E p \in Calls :
             /\ Moves(p, "marked", "done")
             /\ gift_cards[CardOf(p)].is_redeemed
             /\ Len(gift_card_redemptions') = Len(gift_card_redemptions) + 1
             /\ UNCHANGED <<paid_searches, gift_cards>>

\* A call cut short after its credit and before its mark keeps the credit
\* and leaves the card as it found it.
C31_CrashKeepsCredit ==
    \A p \in Calls :
        (Moves(p, "credited", "done")) =>
            /\ redeem_calls'[p].result = "crashed_before_mark"
            /\ paid_searches'[redeem_calls[p].telegram_id] >=
                  redeem_calls[p].paid_before + AmountOf(p)
            /\ ~gift_cards'[CardOf(p)].is_redeemed
            /\ UNCHANGED <<paid_searches, gift_cards, gift_card_redemptions>>

\* The call after one that was cut short between credit and mark, on the
\* same card, succeeds when its select and its credit are answered.
C31_RedeemableAgain ==
    \A p \in Calls, q \in Calls :
        (/\ q = p + 1
         /\ Done(p) /\ redeem_calls[p].result = "crashed_before_mark"
         /\ Done(q) /\ redeem_calls[q].card # None
         /\ CardOf(q) = CardOf(p)
         /\ redeem_calls[q].credit_ok
         /\ redeem_calls[q].result \notin
               {"crashed_before_credit", "crashed_before_mark",
                "crashed_before_record"})
        => /\ redeem_calls[q].result = "success"
           /\ gift_cards[CardOf(q)].is_redeemed

\* C31: redeem_code writes in the order credit, mark of the card, redemption
\* record, each write a step of its own; a call cut short after the credit
\* and before the mark leaves the credit granted and the card unredeemed,
\* and the next call on the same card succeeds.
C31_CreditMarkRecord ==
    /\ [][C31_Order /\ C31_CrashKeepsCredit]_vars
    /\ []C31_RedeemableAgain

\* C31, witness: user 1's call on a card was cut short after the credit, the
\* next call of user 1 on the same card succeeded: the card is credited
\* twice and has one redemption record.
C31_Witness ==
    /\ Done(1) /\ redeem_calls[1].result = "crashed_before_mark"
    /\ Done(2) /\ redeem_calls[2].result = "success"
    /\ redeem_calls[1].telegram_id = 1 /\ redeem_calls[2].telegram_id = 1
    /\ CardOf(1) = CardOf(2)
    /\ paid_searches[1] = 2 * AmountOf(1)
    /\ Len(gift_card_redemptions) = 1


\* The redemption records of the card `code`.
RecordsOf(code) ==
    {i \in 1..Len(gift_card_redemptions) : gift_card_redemptions[i].code = code}

C32_Step ==
    /\ \A c \in KnownCodes :
          gift_cards[c].is_redeemed => gift_cards'[c].is_redeemed
    /\ \A p \in Calls :
          Moves(p, "credited", "marked") =>
             /\ gift_cards[CardOf(p)].redeemed_by = None
             /\ gift_cards[CardOf(p)].redeemed_at = None

C32_State ==
    /\ \A i \in 1..Len(gift_card_redemptions) :
          gift_cards[gift_card_redemptions[i].code].is_redeemed
    /\ \A c \in KnownCodes : Cardinality(RecordsOf(c)) <= 1

\* C32: the redeemed flag of a card never goes from true to false,
\* redeemed_by and redeemed_at of a card are written at most once, every
\* redemption record is of a card already marked redeemed, and no card has
\* more than one redemption record.
C32_CardWrittenOnce == [][C32_Step]_vars /\ []C32_State


(***************************************************************************)
(* Claims about the in-memory stores of the bot.                           *)
(***************************************************************************)
\* The reminder tasks that still sleep.
Sleeping == {sid \in DOMAIN reminder_tasks : reminder_tasks[sid].state = "sleeping"}

NewlyStored == DOMAIN pending_results' \ DOMAIN pending_results

C34_Step ==
    /\ \A sid \in DOMAIN pending_results :
          /\ sid \in DOMAIN pending_results'
          /\ pending_results'[sid].user = pending_results[sid].user
          /\ pending_results'[sid]._created_at = pending_results[sid]._created_at
          /\ pending_results'[sid].items = pending_results[sid].items
    /\ Cardinality(NewlyStored) <= 1
    /\ \A sid \in NewlyStored :
          LET owner == pending_results'[sid].user
          IN  /\ owner \in DOMAIN last_search_by_user'
              /\ last_search_by_user'[owner] = sid
              /\ \A u \in Users \ {owner} :
                    /\ u \in DOMAIN last_search_by_user' <=>
                          u \in DOMAIN last_search_by_user
                    /\ u \in DOMAIN last_search_by_user =>
                          last_search_by_user'[u] = last_search_by_user[u]
    /\ NewlyStored = {} => last_search_by_user' = last_search_by_user

C34_State ==
    \A u \in Users :
        IF u \in DOMAIN last_search_by_user
        THEN /\ last_search_by_user[u] \in DOMAIN pending_results
             /\ pending_results[last_search_by_user[u]].user = u
        ELSE \A sid \in DOMAIN pending_results : pending_results[sid].user # u

C35_NeverRemoved ==
    [][DOMAIN pending_results \subseteq DOMAIN pending_results']_vars

\* C35, witness: a session that was unlocked and has since expired is still
\* in pending_results, and its reminder task is over.
C35_Witness ==
    \E sid \in DOMAIN pending_results :
        /\ pending_results[sid]._unlocked
        /\ now - pending_results[sid]._created_at > 1800
        /\ sid \notin pending_reminders


\* C36: when a free search has completed with no items, its db.use_search
\* is made all the same and takes one credit of a balance that has one, and
\* the handler ends there: it stores no session, sets no last-search entry
\* and schedules no reminder; so every stored session has items and every
\* reminder task is of a stored session.
C36_EmptyFreeSearch ==
    /\ [][\A h \in Handlers :
            LET u == handlers[h].user
            IN  (/\ handlers[h].pc = "got_result"
                 /\ handlers'[h].pc # "got_result"
                 /\ handlers[h].items = 0) =>
                    /\ Len(use_log'[u]) = Len(use_log[u]) + 1
                    /\ free_searches[u] + paid_searches[u] > 0 =>
                          free_searches'[u] + paid_searches'[u] =
                             free_searches[u] + paid_searches[u] - 1
                    /\ handlers'[h].pc = "idle"
                    /\ UNCHANGED <<pending_results, last_search_by_user,
                                   reminder_tasks, pending_reminders>>]_vars
    /\ [](/\ \A sid \in DOMAIN pending_results : pending_results[sid].items > 0
          /\ DOMAIN reminder_tasks \subseteq DOMAIN pending_results)

\* C36, witness: user 1's only photo was searched for free and found
\* nothing: the credit is gone and nothing is stored or scheduled.
C36_Witness ==
    /\ photos_sent = 1
    /\ Len(use_log[1]) = 1
    /\ use_log[1][1].success /\ use_log[1][1].was_free
    /\ free_searches[1] = 0
    /\ CopiesIn(Msg("no_matches", 1, 0, 0), sent) = 1
    /\ pending_results = <<>> /\ last_search_by_user = <<>>
    /\ reminder_tasks = <<>> /\ pending_reminders = {}
    /\ \A h \in Handlers : handlers[h].pc = "idle"


(***************************************************************************)
(* Claims about the pending photo and the branches of the payment handler. *)
(***************************************************************************)
C37_Kept ==
    \A h \in Handlers :
        LET u == handlers[h].user
        IN  (/\ handlers[h].pc = "credits_read"
             /\ handlers'[h].pc = "idle") =>
                /\ DOMAIN pending_photos' = DOMAIN pending_photos \cup {u}
                /\ pending_photos'[u] = handlers[h].photo
                /\ \A v \in DOMAIN pending_photos \ {u} :
                      pending_photos'[v] = pending_photos[v]

C37_Paid ==
    \A c \in Deliverable({PaidSearchPayload}), h \in Handlers :
        (c.payload = PaidSearchPayload /\ HandleSuccessfulPayment(h, c)) =>
            /\ Len(payments') = Len(payments) + 1
            /\ Last(payments').payment_id = c.payment_id
            /\ Last(payments').searches = 1
            /\ UNCHANGED <<free_searches, paid_searches>>
            /\ IF c.user \in DOMAIN pending_photos
               THEN /\ DOMAIN pending_photos' = DOMAIN pending_photos \ {c.user}
                    /\ StartsSearch(h)
                    /\ handlers'[h].user = c.user
                    /\ handlers'[h].photo = pending_photos[c.user]
               ELSE /\ UNCHANGED <<pending_photos, handlers, pending_results>>
                    /\ CopiesIn(Msg("photo_not_found", c.user, 0, 0), sent') =
                          CopiesIn(Msg("photo_not_found", c.user, 0, 0), sent) + 1

\* C37: pending_photos has one photo per user, the one that handle_photo
\* put there last, in place of the one before; a paid_search
\* confirmation handled while the user has a pending photo removes it and
\* starts the search on it; one handled while the user has none starts no
\* search and raises no balance; either way it appends one payment record,
\* with searches 1.
C37_PendingPhoto == [][C37_Kept /\ C37_Paid]_vars

\* C37, witness: a user without credits sent two photos and got two
\* invoices; the first confirmation started the search on the second photo,
\* the second confirmation found no photo: two payments, one search.
C37_Witness ==
    \E u \in Users, h \in Handlers :
        /\ CopiesIn(Msg("invoice_paid_search", u, 0, 0), sent) = 2
        /\ Len(payments) = 2
        /\ payments[1].telegram_id = u /\ payments[2].telegram_id = u
        /\ handlers[h].pc = "searching" /\ handlers[h].kind = "paid"
        /\ handlers[h].user = u /\ handlers[h].photo = 2
        /\ CopiesIn(Msg("photo_not_found", u, 0, 0), sent) = 1
        /\ u \notin DOMAIN pending_photos
        /\ free_searches[u] = 0 /\ paid_searches[u] = 0


\* What a confirmation of the payload is to record as searches granted.
SearchesOf(payload) ==
    IF payload = Buy5Payload THEN 5
    ELSE IF payload \in {PaidSearchPayload, Buy1Payload} THEN 1
    ELSE 0

C38_Handled(h, c) ==
    /\ Len(payments') = Len(payments) + 1
    /\ Last(payments').payment_id = c.payment_id
    /\ Last(payments').telegram_id = c.user
    /\ Last(payments').searches = SearchesOf(c.payload)
    /\ c.payload \in UnlockPayloads =>
          UNCHANGED <<free_searches, paid_searches, handlers, pending_photos>>
    /\ c.payload = PaidSearchPayload =>
          UNCHANGED <<free_searches, paid_searches, pending_results>>
    /\ c.payload \in {Buy1Payload, Buy5Payload} =>
          /\ paid_searches'[c.user] = paid_searches[c.user] + SearchesOf(c.payload)
          /\ UNCHANGED <<free_searches, handlers, pending_photos, pending_results>>
    /\ c.payload \in UnlockAllPayloads =>
          LET sid == c.payload.args[1]
          IN  IF AbsentOrOld(sid)
              THEN /\ SentOf(sent', {"expired"}, sid) # {}
                   /\ UNCHANGED pending_results
              ELSE /\ pending_results'[sid]._unlocked
                   /\ CopiesIn(Msg("upsell", c.user, 0, 0), sent') =
                         CopiesIn(Msg("upsell", c.user, 0, 0), sent) + 1
    /\ c.payload \in UnlockPayloads \ UnlockAllPayloads =>
          /\ UNCHANGED <<pending_results, pending_reminders, reminder_tasks>>
          /\ CopiesIn(Msg("upsell", c.user, 0, 0), sent') =
                CopiesIn(Msg("upsell", c.user, 0, 0), sent)

\* C38: the handling of a payment confirmation with one of the five payloads
\* appends exactly one payment record, of that payment, and has the effects
\* of that payload's branch alone: unlock_all_<id> marks the session
\* unlocked and is never handled as the unlock of one item, and an unlock
\* payment of either kind records 0 searches and changes no balance.
C38_OneBranch ==
    [][\A c \in Deliverable(Payloads), h \in Handlers :
          (c.payload \in Payloads /\ HandleSuccessfulPayment(h, c)) =>
              C38_Handled(h, c)]_vars

\* C38, witness: an unlock-all confirmation was handled for a stored
\* session: one payment record with 0 searches, the session unlocked, the
\* balances of its user as the search left them.
C38_Witness ==
    \E c \in confirmations :
        /\ c.payload \in UnlockAllPayloads
        /\ c.payload.args[1] \in DOMAIN pending_results
        /\ pending_results[c.payload.args[1]]._unlocked
        /\ Len(payments) = 1
        /\ payments[1].payment_id = c.payment_id
        /\ payments[1].searches = 0
        /\ free_searches[c.user] + paid_searches[c.user] = 0


(***************************************************************************)
(* Claims about the gift-code dialogue.                                    *)
(***************************************************************************)
\* The handling of the message `text` of user u, by whichever handler it
\* is routed to.
DialogueMessage(u, text) ==
    \/ CmdRedeem(u, text)
    \/ \E p \in Calls, ok \in BOOLEAN : ProcessGiftCode(p, u, text, ok)
    \/ CmdCancel(u, text)

\* The redeem_code calls the step starts.
CallsStarted ==
    {p \in Calls : redeem_calls[p].pc = "idle" /\ redeem_calls'[p].pc # "idle"}

C39_Step ==
    /\ \A u \in Users, text \in DialogueTexts :
          DialogueMessage(u, text) =>
             /\ (/\ fsm_state[u] = "waiting_for_code"
                 /\ Len(remove_dashes(text)) # 12
                 /\ text # CancelText) =>
                    /\ fsm_state'[u] = "waiting_for_code"
                    /\ redeem_calls' = redeem_calls
             /\ (/\ fsm_state[u] = "waiting_for_code"
                 /\ Len(remove_dashes(text)) = 12) =>
                    /\ Cardinality(CallsStarted) = 1
                    /\ \A p \in CallsStarted :
                          /\ redeem_calls'[p].telegram_id = u
                          /\ redeem_calls'[p].code = text
             /\ text = CancelText =>
                    IF fsm_state[u] = "none"
                    THEN UNCHANGED <<fsm_state, redeem_calls, gift_cards,
                                     gift_card_redemptions, free_searches,
                                     paid_searches>>
                    ELSE /\ fsm_state'[u] = "none"
                         /\ redeem_calls' = redeem_calls
    /\ \A p \in answered' \ answered :
          fsm_state'[redeem_calls[p].telegram_id] = "none"

\* C39: in the gift-code dialogue, a message of a user in waiting_for_code
\* whose text without '-' has not 12 characters leaves the user in
\* waiting_for_code and starts no redeem_code call; a text of 12
\* characters starts exactly one redeem_code call, on that text, and the
\* state is cleared when the call has returned, success or failure; and
\* /cancel clears the state of a user who is in the dialogue and changes
\* nothing for a user who is not.
C39_GiftDialogue == [][C39_Step]_vars

====
